---- MODULE Spec2Model ----
(***************************************************************************)
(* Stock ledger and transfer state machine of the inventory backend        *)
(* (Backend/app/services/stock_service.py), over the tables of             *)
(* Backend/app/models/models.py.                                           *)
(*                                                                         *)
(* The database is the only state.  Every service call reads it, validates *)
(* and then commits its writes in one transaction.  The specifications     *)
(* share the handlers' definitions and differ in the requests they draw:   *)
(*   Spec          calls do not overlap: one action is one whole service   *)
(*                 call, over two warehouses;                              *)
(*   MovementSpec  create_stock_movement alone on one (product,            *)
(*                 warehouse), with more kinds and magnitudes;             *)
(*   AuditSpec     as Spec, with caller-chosen reference numbers;          *)
(*   TransferSpec  transfers of 1 or 2 units of one product;               *)
(*   CatalogSpec   as Spec, with products and warehouses that are missing  *)
(*                 or inactive and ProductService.delete_product;          *)
(*   ProductSpec   create_stock_movement and delete_product alone;         *)
(*   SkuSpec       ProductService create, update and soft delete;          *)
(*   SignSpec      every movement kind with either input sign;             *)
(*   ApiSpec       the API handlers: schema validation, ownership check,   *)
(*                 service call and websocket announcement;                *)
(*   CostSpec      movements that carry a unit cost;                       *)
(*   OwnedSpec     the API handlers called by users who may or may not     *)
(*                 own the product or the transfer;                        *)
(*   CancelSpec    transfers of a product that is sold off or soft-deleted *)
(*                 while they are pending;                                 *)
(*   NotifySpec    the stock and product handlers with a user connected    *)
(*                 to /ws;                                                 *)
(*   WsSpec        the /ws endpoint and the WebSocketManager: connect,     *)
(*                 subscribe, unsubscribe, close;                          *)
(*   ReadSpec      movements and reads of the stock;                       *)
(*   CalcSpec      _calculate_movement_quantity on one input;              *)
(*   ConcSpec      calls overlap: each request has its own session, runs   *)
(*                 its queries and validation, its flush/commit and its    *)
(*                 refresh in separate steps (the engine sets no           *)
(*                 isolation level and the handlers take no lock).         *)
(***************************************************************************)
EXTENDS Integers, Sequences, FiniteSets, TLC

\* ------------------------------------------------------------------ bounds
MaxMovements == 4    \* ledger rows
MaxTransfers == 1    \* transfer rows

\* Rows of the products and warehouses tables, and the request sessions.
ProductIds == {1}
WarehouseIds == {1, 2}
SessionIds == {1, 2}

\* ------------------------------------------------------------------ tables
\* The users table: two ordinary users and an admin.
UserIds == {1, 2, 3}
users == [u \in UserIds |-> [is_admin |-> (u = 3)]]

\* models.MovementType
MovementType ==
  {"purchase", "sale", "adjustment", "damaged", "return", "transfer_in", "transfer_out"}

\* SQL NULL / Python None
NULL == "NULL"

\* SQL NULL / Python None where the value is a number.
None == << >>

VARIABLES
  products,     \* products table: id -> [is_active]
  warehouses,   \* warehouses table: id -> [is_active]
  movements,    \* stock_movements table, in id order (row id = index)
  transfers,    \* stock_transfers table, in id order (row id = index)
  sessions,     \* ConcSpec: per request session, the writes awaiting commit
  response,     \* the latest answer of the service: the call and its outcome
  broadcasts,   \* what the API handlers handed to the websocket manager
  ws_manager,   \* api/websocket.py ws_manager: the WebSocketManager's dicts
  websockets    \* the /ws connections: closed, or open and authenticated

vars == <<products, warehouses, movements, transfers, sessions, response, broadcasts,
          ws_manager, websockets>>
realtime == <<ws_manager, websockets>>
tables == <<products, warehouses, movements, transfers>>

\* A request session with no call running on it.
IdleSession == [pc |-> "idle", call |-> NULL, transfer |-> NULL, writes |-> << >>]

\* The committed database as one value.
DB ==
  [products |-> products, warehouses |-> warehouses,
   movements |-> movements, transfers |-> transfers]

\* f"TRANSFER-{transfer.id}"
TransferReference(id) == "TRANSFER-" \o ToString(id)

\* ------------------------------------------------------------------ persistence
\* One row of a table changed by column.
UpdateRow(row, values) ==
  [f \in DOMAIN row |-> IF f \in DOMAIN values THEN values[f] ELSE row[f]]

\* A flush whose INSERT into stock_movements lands on the newest row
\* instead of adding one.
ApplyWrite_insert_replaces_last(db, w) ==
  CASE w.stmt = "insert_movement" ->
         [db EXCEPT !.movements =
            IF @ = << >> THEN << w.row >> ELSE [@ EXCEPT ![Len(@)] = w.row]]
    [] w.stmt = "insert_transfer" ->
         [db EXCEPT !.transfers = Append(@, w.row)]
    [] w.stmt = "update_transfer" ->
         [db EXCEPT !.transfers[w.id] = UpdateRow(@, w.values)]
    [] w.stmt = "update_product" ->
         [db EXCEPT !.products[w.id] = UpdateRow(@, w.values)]
    [] w.stmt = "insert_product" ->
         [db EXCEPT !.products = @ @@ ((Cardinality(DOMAIN @) + 1) :> w.row)]

\* Session.add / attribute assignment, as the statement the flush emits.
ApplyWrite(db, w) ==
  CASE w.stmt = "insert_movement" ->
         [db EXCEPT !.movements = Append(@, w.row)]
    [] w.stmt = "insert_transfer" ->
         [db EXCEPT !.transfers = Append(@, w.row)]
    [] w.stmt = "update_transfer" ->
         [db EXCEPT !.transfers[w.id] = UpdateRow(@, w.values)]
    [] w.stmt = "update_product" ->
         [db EXCEPT !.products[w.id] = UpdateRow(@, w.values)]
    [] w.stmt = "insert_product" ->
         [db EXCEPT !.products = @ @@ ((Cardinality(DOMAIN @) + 1) :> w.row)]

\* The first n statements of a flush, applied inside the transaction.
RECURSIVE ApplyWrites(_, _, _)
ApplyWrites(db, ws, n) ==
  IF n = 0 THEN db ELSE ApplyWrite(ApplyWrites(db, ws, n - 1), ws[n])

\* Session.rollback that discards nothing: the statements executed before the
\* failure stay, as under autocommit.
Rollback_keeps_writes(db, tx) == tx

\* Session.rollback: the transaction's writes are discarded.
Rollback(db, tx) == db

\* The calls that end with self.db.refresh(row) after self.db.commit();
\* delete_product returns right after its commit.
Refreshes ==
  {"create_stock_movement", "create_stock_transfer", "complete_stock_transfer",
   "cancel_stock_transfer", "create_product", "update_product"}

\* The failure point after COMMIT: the SELECT of self.db.refresh.
AtRefresh == -1

\* Where a call can fail once it is validated: 0 = nowhere, k = at statement
\* k of the flush, Len(ws) + 1 = at COMMIT itself, AtRefresh = at the
\* refresh that follows the COMMIT.
FailPoints(call, ws) ==
  (0..(Len(ws) + 1)) \cup (IF call \in Refreshes THEN {AtRefresh} ELSE {})

\* Session.commit: flush every pending statement, then COMMIT; a failure at
\* any point up to COMMIT rolls the transaction back.  A failure at the
\* refresh finds the transaction committed: the rollback of the except
\* branch discards nothing.
Commit(db, ws, failAt) ==
  IF failAt \in {0, AtRefresh}
    THEN ApplyWrites(db, ws, Len(ws))
    ELSE Rollback(db, ApplyWrites(db, ws, failAt - 1))

\* What the caller sees: the row, or the exception re-raised.
CommitResult(failAt) == IF failAt = 0 THEN "ok" ELSE "db_error"

\* ------------------------------------------------------------------ StockService
Abs(n) == IF n < 0 THEN -n ELSE n

inbound_types == {"purchase", "return", "transfer_in"}
outbound_types == {"sale", "damaged", "transfer_out"}

\* _calculate_movement_quantity passing the caller's sign through for the
\* inbound kinds.
calculate_movement_quantity_inbound_keeps_sign(movement_type, input_quantity) ==
  LET abs_quantity == Abs(input_quantity) IN
  IF movement_type \in inbound_types THEN input_quantity
  ELSE IF movement_type \in outbound_types THEN -abs_quantity
  ELSE IF movement_type = "adjustment" THEN input_quantity
  ELSE "error"

\* _calculate_movement_quantity negating the input of the outbound kinds
\* without taking its absolute value.
calculate_movement_quantity_outbound_negates(movement_type, input_quantity) ==
  LET abs_quantity == Abs(input_quantity) IN
  IF movement_type \in inbound_types THEN abs_quantity
  ELSE IF movement_type \in outbound_types THEN -input_quantity
  ELSE IF movement_type = "adjustment" THEN input_quantity
  ELSE "error"

\* _calculate_movement_quantity treating an adjustment as an inbound kind.
calculate_movement_quantity_adjustment_abs(movement_type, input_quantity) ==
  LET abs_quantity == Abs(input_quantity) IN
  IF movement_type \in inbound_types \cup {"adjustment"} THEN abs_quantity
  ELSE IF movement_type \in outbound_types THEN -abs_quantity
  ELSE "error"

\* StockService._calculate_movement_quantity; "error" is the ValueError of
\* the default branch.
calculate_movement_quantity(movement_type, input_quantity) ==
  LET abs_quantity == Abs(input_quantity) IN
  IF movement_type \in inbound_types THEN abs_quantity
  ELSE IF movement_type \in outbound_types THEN -abs_quantity
  ELSE IF movement_type = "adjustment" THEN input_quantity
  ELSE "error"

\* func.sum(StockMovement.quantity) over the first n rows matching the filter.
RECURSIVE SumQuantity(_, _, _, _)
SumQuantity(rows, product_id, warehouse_id, n) ==
  IF n = 0 THEN 0
  ELSE SumQuantity(rows, product_id, warehouse_id, n - 1)
       + (IF rows[n].product_id = product_id /\ rows[n].warehouse_id = warehouse_id
            THEN rows[n].quantity ELSE 0)

\* get_product_stock_in_warehouse filtering on the product alone.
get_product_stock_in_warehouse_any_warehouse(db, product_id, warehouse_id) ==
  LET RECURSIVE Sum(_)
      Sum(n) == IF n = 0 THEN 0
                ELSE Sum(n - 1) + (IF db.movements[n].product_id = product_id
                                     THEN db.movements[n].quantity ELSE 0)
  IN Sum(Len(db.movements))

\* StockService.get_product_stock_in_warehouse (coalesce(sum, 0))
get_product_stock_in_warehouse(db, product_id, warehouse_id) ==
  SumQuantity(db.movements, product_id, warehouse_id, Len(db.movements))

\* The product looked up by id alone, soft-deleted rows included.
ActiveProduct_ignores_is_active(db, product_id) ==
  product_id \in DOMAIN db.products

\* query(Product).filter(id == product_id, is_active == True).first()
ActiveProduct(db, product_id) ==
  product_id \in DOMAIN db.products /\ db.products[product_id].is_active

\* query(Warehouse).filter(id == warehouse_id, is_active == True).first()
ActiveWarehouse(db, warehouse_id) ==
  warehouse_id \in DOMAIN db.warehouses /\ db.warehouses[warehouse_id].is_active

\* query(StockTransfer).filter(id == transfer_id).first()
TransferExists(db, transfer_id) == transfer_id \in DOMAIN db.transfers

\* create_stock_movement guarding the outbound kinds only, not the sign of the
\* resolved quantity: a negative adjustment is not checked.
create_stock_movement_check_outbound_kinds_only(db, movement_data) ==
  IF ~ActiveProduct(db, movement_data.product_id) THEN "product_not_found"
  ELSE IF ~ActiveWarehouse(db, movement_data.warehouse_id) THEN "warehouse_not_found"
  ELSE
    LET actual_quantity ==
          calculate_movement_quantity(movement_data.movement_type, movement_data.quantity)
        current_stock ==
          get_product_stock_in_warehouse(db, movement_data.product_id,
                                         movement_data.warehouse_id)
    IN IF movement_data.movement_type \in outbound_types
          /\ current_stock + actual_quantity < 0
         THEN "insufficient_stock" ELSE "ok"

\* create_stock_movement refusing a withdrawal that empties the stock exactly
\* (<= for <).
create_stock_movement_check_off_by_one(db, movement_data) ==
  IF ~ActiveProduct(db, movement_data.product_id) THEN "product_not_found"
  ELSE IF ~ActiveWarehouse(db, movement_data.warehouse_id) THEN "warehouse_not_found"
  ELSE
    LET actual_quantity ==
          calculate_movement_quantity(movement_data.movement_type, movement_data.quantity)
        current_stock ==
          get_product_stock_in_warehouse(db, movement_data.product_id,
                                         movement_data.warehouse_id)
    IN IF actual_quantity < 0 /\ current_stock + actual_quantity <= 0
         THEN "insufficient_stock" ELSE "ok"

\* create_stock_movement, lines 14-40: the validation and its error.
create_stock_movement_check(db, movement_data) ==
  IF ~ActiveProduct(db, movement_data.product_id) THEN "product_not_found"
  ELSE IF ~ActiveWarehouse(db, movement_data.warehouse_id) THEN "warehouse_not_found"
  ELSE
    LET actual_quantity ==
          calculate_movement_quantity(movement_data.movement_type, movement_data.quantity)
        current_stock ==
          get_product_stock_in_warehouse(db, movement_data.product_id,
                                         movement_data.warehouse_id)
    IN IF actual_quantity < 0 /\ current_stock + actual_quantity < 0
         THEN "insufficient_stock" ELSE "ok"

\* Money: a request's unit_cost is an Optional[Decimal], here << >> for None
\* and <<n>> for n thousandths; the columns unit_cost and total_cost are
\* Numeric(10, 2), here << >> for NULL and <<n>> for n hundredths.  The
\* database rounds a value to the column's scale when it stores it (half
\* away from zero; the amounts are never negative).
Numeric_10_2(decimal) ==
  IF decimal = None THEN None ELSE << (decimal[1] + 5) \div 10 >>

\* create_stock_movement, lines 42-45: total_cost before it is stored.
total_cost(movement_data, actual_quantity) ==
  IF movement_data.unit_cost # None
    THEN << movement_data.unit_cost[1] * Abs(actual_quantity) >>
    ELSE None

\* create_stock_movement storing the quantity as the caller sent it
\* (movement_dict['quantity'] = actual_quantity left out).
create_stock_movement_writes_raw_quantity(db, movement_data) ==
  LET actual_quantity ==
        calculate_movement_quantity(movement_data.movement_type, movement_data.quantity)
  IN << [stmt |-> "insert_movement",
         row |-> [product_id |-> movement_data.product_id,
                  warehouse_id |-> movement_data.warehouse_id,
                  movement_type |-> movement_data.movement_type,
                  quantity |-> movement_data.quantity,
                  unit_cost |-> Numeric_10_2(movement_data.unit_cost),
                  total_cost |-> Numeric_10_2(total_cost(movement_data, actual_quantity)),
                  reference_number |-> movement_data.reference_number]] >>

\* create_stock_movement, lines 47-57: the row handed to Session.add, with
\* the values its columns hold once flushed.
create_stock_movement_writes(db, movement_data) ==
  LET actual_quantity ==
        calculate_movement_quantity(movement_data.movement_type, movement_data.quantity)
  IN << [stmt |-> "insert_movement",
         row |-> [product_id |-> movement_data.product_id,
                  warehouse_id |-> movement_data.warehouse_id,
                  movement_type |-> movement_data.movement_type,
                  quantity |-> actual_quantity,
                  unit_cost |-> Numeric_10_2(movement_data.unit_cost),
                  total_cost |-> Numeric_10_2(total_cost(movement_data, actual_quantity)),
                  reference_number |-> movement_data.reference_number]] >>

\* create_stock_transfer without its test that the warehouses differ.
create_stock_transfer_check_no_same_warehouse_test(db, transfer_data) ==
  IF ~ActiveProduct(db, transfer_data.product_id) THEN "product_not_found"
  ELSE IF ~ActiveWarehouse(db, transfer_data.from_warehouse_id)
    THEN "source_warehouse_not_found"
  ELSE IF ~ActiveWarehouse(db, transfer_data.to_warehouse_id)
    THEN "destination_warehouse_not_found"
  ELSE IF get_product_stock_in_warehouse(db, transfer_data.product_id,
                                         transfer_data.from_warehouse_id)
          < transfer_data.quantity
    THEN "insufficient_stock"
  ELSE "ok"

\* create_stock_transfer without its stock test.
create_stock_transfer_check_no_stock_test(db, transfer_data) ==
  IF ~ActiveProduct(db, transfer_data.product_id) THEN "product_not_found"
  ELSE IF transfer_data.from_warehouse_id = transfer_data.to_warehouse_id
    THEN "same_warehouse"
  ELSE IF ~ActiveWarehouse(db, transfer_data.from_warehouse_id)
    THEN "source_warehouse_not_found"
  ELSE IF ~ActiveWarehouse(db, transfer_data.to_warehouse_id)
    THEN "destination_warehouse_not_found"
  ELSE "ok"

\* create_stock_transfer, lines 157-186.
create_stock_transfer_check(db, transfer_data) ==
  IF ~ActiveProduct(db, transfer_data.product_id) THEN "product_not_found"
  ELSE IF transfer_data.from_warehouse_id = transfer_data.to_warehouse_id
    THEN "same_warehouse"
  ELSE IF ~ActiveWarehouse(db, transfer_data.from_warehouse_id)
    THEN "source_warehouse_not_found"
  ELSE IF ~ActiveWarehouse(db, transfer_data.to_warehouse_id)
    THEN "destination_warehouse_not_found"
  ELSE IF get_product_stock_in_warehouse(db, transfer_data.product_id,
                                         transfer_data.from_warehouse_id)
          < transfer_data.quantity
    THEN "insufficient_stock"
  ELSE "ok"

\* create_stock_transfer, lines 188-194.
create_stock_transfer_writes(db, transfer_data) ==
  << [stmt |-> "insert_transfer",
      row |-> [product_id |-> transfer_data.product_id,
               from_warehouse_id |-> transfer_data.from_warehouse_id,
               to_warehouse_id |-> transfer_data.to_warehouse_id,
               quantity |-> transfer_data.quantity,
               status |-> "pending",
               completed_at |-> NULL]] >>

\* complete_stock_transfer, lines 201-209: the SELECT of the transfer row
\* and the tests on it.
complete_stock_transfer_find(db, transfer_id) ==
  IF ~TransferExists(db, transfer_id) THEN "not_found"
  ELSE IF db.transfers[transfer_id].status # "pending" THEN "not_pending"
  ELSE "ok"

\* complete_stock_transfer, lines 211-217: the SUM over the ledger, run after
\* the transfer row was read, and the test against the quantity of that row.
complete_stock_transfer_recheck(db, transfer) ==
  IF get_product_stock_in_warehouse(db, transfer.product_id, transfer.from_warehouse_id)
       < transfer.quantity
    THEN "insufficient_stock"
  ELSE "ok"

\* complete_stock_transfer trusting the stock test made at creation.
complete_stock_transfer_check_no_recheck(db, transfer_id) ==
  IF ~TransferExists(db, transfer_id) THEN "not_found"
  ELSE IF db.transfers[transfer_id].status # "pending" THEN "not_pending"
  ELSE "ok"

\* complete_stock_transfer, lines 201-217, with both queries run against the
\* same database.
complete_stock_transfer_check(db, transfer_id) ==
  IF complete_stock_transfer_find(db, transfer_id) # "ok"
    THEN complete_stock_transfer_find(db, transfer_id)
    ELSE complete_stock_transfer_recheck(db, db.transfers[transfer_id])

\* complete_stock_transfer booking the inbound row on the source warehouse.
complete_stock_transfer_writes_inbound_at_source(db, transfer_id) ==
  LET transfer == db.transfers[transfer_id] IN
  << [stmt |-> "insert_movement",
      row |-> [product_id |-> transfer.product_id,
               warehouse_id |-> transfer.from_warehouse_id,
               movement_type |-> "transfer_out",
               quantity |-> calculate_movement_quantity("transfer_out", transfer.quantity),
               unit_cost |-> None, total_cost |-> None,
               reference_number |-> TransferReference(transfer_id)]],
     [stmt |-> "insert_movement",
      row |-> [product_id |-> transfer.product_id,
               warehouse_id |-> transfer.from_warehouse_id,
               movement_type |-> "transfer_in",
               quantity |-> calculate_movement_quantity("transfer_in", transfer.quantity),
               unit_cost |-> None, total_cost |-> None,
               reference_number |-> TransferReference(transfer_id)]],
     [stmt |-> "update_transfer", id |-> transfer_id,
      values |-> [status |-> "completed", completed_at |-> "utcnow"]] >>

\* complete_stock_transfer, lines 219-249: two rows added, the status set.
complete_stock_transfer_writes(db, transfer_id) ==
  LET transfer == db.transfers[transfer_id] IN
  << [stmt |-> "insert_movement",
      row |-> [product_id |-> transfer.product_id,
               warehouse_id |-> transfer.from_warehouse_id,
               movement_type |-> "transfer_out",
               quantity |-> calculate_movement_quantity("transfer_out", transfer.quantity),
               unit_cost |-> None, total_cost |-> None,
               reference_number |-> TransferReference(transfer_id)]],
     [stmt |-> "insert_movement",
      row |-> [product_id |-> transfer.product_id,
               warehouse_id |-> transfer.to_warehouse_id,
               movement_type |-> "transfer_in",
               quantity |-> calculate_movement_quantity("transfer_in", transfer.quantity),
               unit_cost |-> None, total_cost |-> None,
               reference_number |-> TransferReference(transfer_id)]],
     [stmt |-> "update_transfer", id |-> transfer_id,
      values |-> [status |-> "completed", completed_at |-> "utcnow"]] >>

\* cancel_stock_transfer without its status test.
cancel_stock_transfer_check_any_status(db, transfer_id) ==
  IF ~TransferExists(db, transfer_id) THEN "not_found" ELSE "ok"

\* cancel_stock_transfer raising the invalid-state error for a transfer it
\* does not find.
cancel_stock_transfer_check_missing_is_invalid_state(db, transfer_id) ==
  IF ~TransferExists(db, transfer_id) THEN "not_pending"
  ELSE IF db.transfers[transfer_id].status # "pending" THEN "not_pending"
  ELSE "ok"

\* cancel_stock_transfer looking its product up the way create_stock_transfer
\* does, and refusing when the product is inactive.
cancel_stock_transfer_check_requires_active_product(db, transfer_id) ==
  IF ~TransferExists(db, transfer_id) THEN "not_found"
  ELSE IF db.transfers[transfer_id].status # "pending" THEN "not_pending"
  ELSE IF ~db.products[db.transfers[transfer_id].product_id].is_active
    THEN "product_not_found"
  ELSE "ok"

\* cancel_stock_transfer, lines 262-270.
cancel_stock_transfer_check(db, transfer_id) ==
  IF ~TransferExists(db, transfer_id) THEN "not_found"
  ELSE IF db.transfers[transfer_id].status # "pending" THEN "not_pending"
  ELSE "ok"

\* cancel_stock_transfer booking the quantity back in at the source.
cancel_stock_transfer_writes_with_return(db, transfer_id) ==
  << [stmt |-> "insert_movement",
      row |-> [product_id |-> db.transfers[transfer_id].product_id,
               warehouse_id |-> db.transfers[transfer_id].from_warehouse_id,
               movement_type |-> "transfer_in",
               quantity |-> db.transfers[transfer_id].quantity,
               unit_cost |-> None, total_cost |-> None,
               reference_number |-> TransferReference(transfer_id)]],
     [stmt |-> "update_transfer", id |-> transfer_id,
      values |-> [status |-> "cancelled"]] >>

\* cancel_stock_transfer, line 272.
cancel_stock_transfer_writes(db, transfer_id) ==
  << [stmt |-> "update_transfer", id |-> transfer_id,
      values |-> [status |-> "cancelled"]] >>

\* ------------------------------------------------------------------ ProductService
\* ProductService.delete_product, lines 164-166: get_product finds active
\* products only.
delete_product_check(db, product_id) ==
  IF ~ActiveProduct(db, product_id) THEN "not_found" ELSE "ok"

\* delete_product committing without having cleared the flag.
delete_product_writes_flag_left_set(db, product_id) ==
  << [stmt |-> "update_product", id |-> product_id,
      values |-> [is_active |-> TRUE]] >>

\* ProductService.delete_product, line 168: the soft delete.
delete_product_writes(db, product_id) ==
  << [stmt |-> "update_product", id |-> product_id,
      values |-> [is_active |-> FALSE]] >>

\* ProductService.create_product, lines 14-17, looking for the SKU among the
\* active products only.
create_product_check_active_only(db, product_data) ==
  IF \E p \in DOMAIN db.products :
       db.products[p].is_active /\ db.products[p].sku = product_data.sku
    THEN "duplicate_sku" ELSE "ok"

\* ProductService.create_product, lines 14-17: the SKU is looked up among
\* all products, soft-deleted ones included.
create_product_check(db, product_data) ==
  IF \E p \in DOMAIN db.products : db.products[p].sku = product_data.sku
    THEN "duplicate_sku" ELSE "ok"

\* ProductService.create_product, lines 19-25: the row takes the next id and
\* the column default is_active = True.
create_product_writes(db, product_data) ==
  << [stmt |-> "insert_product",
      row |-> [sku |-> product_data.sku, is_active |-> TRUE]] >>

\* ProductService.update_product finding its target by id alone, soft-deleted
\* rows included.
update_product_check_finds_inactive(db, product_id, product_data) ==
  IF product_id \notin DOMAIN db.products THEN "not_found"
  ELSE IF /\ "sku" \in DOMAIN product_data
          /\ product_data.sku # db.products[product_id].sku
          /\ \E p \in DOMAIN db.products :
               db.products[p].sku = product_data.sku /\ p # product_id
    THEN "duplicate_sku"
  ELSE "ok"

\* ProductService.update_product, lines 142-152.  product_data holds the
\* fields the caller set (model_dump(exclude_unset=True)).
update_product_check(db, product_id, product_data) ==
  IF ~ActiveProduct(db, product_id) THEN "not_found"
  ELSE IF /\ "sku" \in DOMAIN product_data
          /\ product_data.sku # db.products[product_id].sku
          /\ \E p \in DOMAIN db.products :
               db.products[p].sku = product_data.sku /\ p # product_id
    THEN "duplicate_sku"
  ELSE "ok"

\* ProductService.update_product, lines 154-158: setattr for every set field.
update_product_writes(db, product_id, product_data) ==
  << [stmt |-> "update_product", id |-> product_id, values |-> product_data] >>

\* ------------------------------------------------------------------ WebSocketManager
\* The /ws connections and the users that authenticate on them (users 1 and
\* 2 are not admins: the endpoint announces nothing on their connect).
WebSocketIds == {1, 2, 3}
WsUserIds == {1, 2}

\* WebSocketManager.__init__: the four channels, nobody connected.
Channels == {"dashboard", "products", "stock_movements", "stock_transfers"}

\* The channels the modelled clients ask for.
RequestedChannels == {"dashboard", "stock_transfers"}

ManagerInit ==
  /\ ws_manager = [active_connections |-> << >>,
                   user_info |-> << >>,
                   channel_subscriptions |-> [c \in Channels |-> {}],
                   user_subscriptions |-> << >>]
  /\ websockets = [w \in WebSocketIds |-> [pc |-> "closed", user |-> NULL]]

\* d[k] = v and del d[k] on a dict.
DictSet(d, k, v) == [x \in DOMAIN d \cup {k} |-> IF x = k THEN v ELSE d[x]]
DictDel(d, k) == [x \in DOMAIN d \ {k} |-> d[x]]

\* WebSocketManager.connect
connect(m, websocket, user_id) ==
  [m EXCEPT !.active_connections = DictSet(@, user_id, websocket),
            !.user_info = DictSet(@, user_id, [is_admin |-> users[user_id].is_admin]),
            !.user_subscriptions = DictSet(@, user_id, {})]

\* WebSocketManager.disconnect
disconnect(m, websocket, user_id) ==
  [m EXCEPT !.active_connections = DictDel(@, user_id),
            !.user_info = DictDel(@, user_id),
            !.channel_subscriptions =
              IF user_id \in DOMAIN m.user_subscriptions
                THEN [c \in DOMAIN @ |->
                        IF c \in m.user_subscriptions[user_id]
                          THEN @[c] \ {user_id} ELSE @[c]]
                ELSE @,
            !.user_subscriptions = DictDel(@, user_id)]

\* WebSocketManager.subscribe_to_channel
subscribe_to_channel(m, user_id, channel) ==
  LET channel_subscriptions ==
        IF channel \notin DOMAIN m.channel_subscriptions
          THEN DictSet(m.channel_subscriptions, channel, {})
          ELSE m.channel_subscriptions
      user_subscriptions ==
        IF user_id \notin DOMAIN m.user_subscriptions
          THEN DictSet(m.user_subscriptions, user_id, {})
          ELSE m.user_subscriptions
  IN [m EXCEPT !.channel_subscriptions =
                 [channel_subscriptions EXCEPT ![channel] = @ \cup {user_id}],
               !.user_subscriptions =
                 [user_subscriptions EXCEPT ![user_id] = @ \cup {channel}]]

\* WebSocketManager.unsubscribe_from_channel
unsubscribe_from_channel(m, user_id, channel) ==
  [m EXCEPT !.channel_subscriptions =
              IF channel \in DOMAIN @
                THEN [@ EXCEPT ![channel] = @ \ {user_id}] ELSE @,
            !.user_subscriptions =
              IF user_id \in DOMAIN @
                THEN [@ EXCEPT ![user_id] = @ \ {channel}] ELSE @]

\* websocket.send_text(json.dumps(message)) to user_id inside the try of a
\* broadcast: json.dumps raises on a message that holds a datetime, send_text
\* on a socket whose client has gone.
Sent(m, user_id, message) ==
  /\ message.json
  /\ websockets[m.active_connections[user_id]].pc = "open"

\* exclude_user_id and user_id == exclude_user_id
Excluded(user_id, exclude_user_id) ==
  exclude_user_id # None /\ exclude_user_id[1] = user_id

\* WebSocketManager.disconnect for each of disconnected_users, with the
\* socket active_connections.get(user_id) gives at that time.
RECURSIVE DisconnectAll(_, _)
DisconnectAll(m, disconnected_users) ==
  IF disconnected_users = {} THEN m
  ELSE LET user_id == CHOOSE u \in disconnected_users : TRUE IN
       DisconnectAll(disconnect(m,
                                IF user_id \in DOMAIN m.active_connections
                                  THEN m.active_connections[user_id] ELSE NULL,
                                user_id),
                     disconnected_users \ {user_id})

\* WebSocketManager.send_personal_message
send_personal_message(m, message, user_id) ==
  IF user_id \in DOMAIN m.active_connections /\ ~Sent(m, user_id, message)
    THEN disconnect(m, m.active_connections[user_id], user_id)
    ELSE m

\* WebSocketManager.broadcast_to_all
broadcast_to_all(m, message, exclude_user_id) ==
  DisconnectAll(m, {user_id \in DOMAIN m.active_connections :
                      /\ ~Excluded(user_id, exclude_user_id)
                      /\ ~Sent(m, user_id, message)})

\* WebSocketManager.broadcast_to_admins
broadcast_to_admins(m, message, exclude_user_id) ==
  DisconnectAll(m, {user_id \in DOMAIN m.active_connections :
                      /\ ~Excluded(user_id, exclude_user_id)
                      /\ user_id \in DOMAIN m.user_info
                      /\ m.user_info[user_id].is_admin
                      /\ ~Sent(m, user_id, message)})

\* WebSocketManager.broadcast_to_channel run with no other task in between:
\* every subscriber that has a connection and could not be sent the message
\* is disconnected.  The handlers call it so only with a message json.dumps
\* refuses, which never reaches the await of send_text.
broadcast_to_channel(m, channel, message, exclude_user_id) ==
  IF channel \notin DOMAIN m.channel_subscriptions THEN m
  ELSE DisconnectAll(m, {user_id \in m.channel_subscriptions[channel] :
                           /\ ~Excluded(user_id, exclude_user_id)
                           /\ user_id \in DOMAIN m.active_connections
                           /\ ~Sent(m, user_id, message)})

\* A message of the given type around data; json tells whether json.dumps
\* takes it (the timestamp is an isoformat string, data is the caller's).
Message(type, data) == [type |-> type, json |-> data.json]

\* WebSocketManager.send_system_message
send_system_message(m) ==
  broadcast_to_all(m, [type |-> "system_message", json |-> TRUE], None)

\* api/websocket.py broadcast_product_update
broadcast_product_update(m, product_data) ==
  broadcast_to_channel(m, "products", Message("product_updated", product_data), None)

\* api/websocket.py broadcast_stock_movement: the stock_movements channel,
\* then the dashboard.
broadcast_stock_movement(m, movement_data) ==
  broadcast_to_channel(
    broadcast_to_channel(m, "stock_movements",
                         Message("stock_movement_created", movement_data), None),
    "dashboard", Message("dashboard_update", movement_data), None)

\* api/websocket.py broadcast_stock_transfer: the stock_transfers channel,
\* then the dashboard.
broadcast_stock_transfer(m, transfer_data) ==
  broadcast_to_channel(
    broadcast_to_channel(m, "stock_transfers",
                         Message("stock_transfer_updated", transfer_data), None),
    "dashboard", Message("dashboard_update", transfer_data), None)

\* api/websocket.py broadcast_low_stock_alert
broadcast_low_stock_alert(m, product_data) ==
  broadcast_to_all(m, Message("low_stock_alert", product_data), None)

\* api/websocket.py broadcast_dashboard_stats
broadcast_dashboard_stats(m, stats_data) ==
  broadcast_to_channel(m, "dashboard", Message("dashboard_stats_update", stats_data),
                       None)

\* websocket_endpoint, lines 50-106: a client opens a socket, authenticates as
\* user_id and is registered with the manager; the connection of an admin is
\* announced to the other admins (users holds one admin, so nobody is sent
\* that message).
websocket_endpoint_connect(websocket, user_id) ==
  /\ websockets[websocket].pc = "closed"
  /\ ws_manager' =
       IF users[user_id].is_admin
         THEN broadcast_to_admins(connect(ws_manager, websocket, user_id),
                                  [type |-> "admin_connected", json |-> TRUE],
                                  << user_id >>)
         ELSE connect(ws_manager, websocket, user_id)
  /\ websockets' = [websockets EXCEPT ![websocket] = [pc |-> "open", user |-> user_id]]
  /\ UNCHANGED <<tables, sessions, response, broadcasts>>

\* The client of an open socket goes away: from now on send_text on the
\* socket raises, and the endpoint's receive loop has yet to end.
client_gone(websocket) ==
  /\ websockets[websocket].pc = "open"
  /\ websockets' = [websockets EXCEPT ![websocket].pc = "gone"]
  /\ UNCHANGED <<tables, sessions, response, broadcasts, ws_manager>>

\* handle_websocket_message: subscribe_<channel> and unsubscribe_<channel>
\* sent on an open socket.
handle_websocket_message(websocket, message_type, channel) ==
  /\ websockets[websocket].pc = "open"
  /\ ws_manager' =
       IF message_type = "subscribe"
         THEN subscribe_to_channel(ws_manager, websockets[websocket].user, channel)
         ELSE unsubscribe_from_channel(ws_manager, websockets[websocket].user, channel)
  /\ UNCHANGED <<tables, sessions, response, broadcasts, websockets>>

\* The handlers suspended in send_text on websocket hold a closed socket from
\* now on (None): the id it had may name the socket of a later connection.
RECURSIVE SocketClosed(_, _)
SocketClosed(tasks, websocket) ==
  IF tasks = << >> THEN << >>
  ELSE LET task == Head(tasks) IN
       << IF task.pc = "send_text" /\ task.sending[2] = << websocket >>
            THEN [task EXCEPT !.sending = << task.sending[1], None >>]
            ELSE task >> \o SocketClosed(Tail(tasks), websocket)

\* websocket_endpoint, lines 131-138: the socket closes and the finally block
\* calls ws_manager.disconnect(websocket, user.id).
websocket_endpoint_close(websocket) ==
  /\ websockets[websocket].pc \in {"open", "gone"}
  /\ ws_manager' = disconnect(ws_manager, websocket, websockets[websocket].user)
  /\ websockets' = [websockets EXCEPT ![websocket] = [pc |-> "closed", user |-> NULL]]
  /\ broadcasts' = SocketClosed(broadcasts, websocket)
  /\ UNCHANGED <<tables, sessions, response>>

\* ------------------------------------------------------------------ requests
\* Rows the statements of ws insert into a table.
Inserts(ws, stmt) == Cardinality({i \in DOMAIN ws : ws[i].stmt = stmt})

\* The ledger and the transfer table stay within the bounds.
RoomFor(ws) ==
  /\ Len(movements) + Inserts(ws, "insert_movement") <= MaxMovements
  /\ Len(transfers) + Inserts(ws, "insert_transfer") <= MaxTransfers

Persist(db) ==
  /\ products' = db.products
  /\ warehouses' = db.warehouses
  /\ movements' = db.movements
  /\ transfers' = db.transfers

Response(call, outcome) == [call |-> call, outcome |-> outcome]

\* A whole service call on its own session, not overlapping any other: the
\* validation raises, or the writes are committed.
Service(call, check, ws) ==
  /\ \A s \in SessionIds : sessions[s].pc = "idle"
  /\ IF check # "ok"
       THEN /\ response' = Response(call, check)
            /\ UNCHANGED tables
       ELSE /\ RoomFor(ws)
            /\ \E failAt \in FailPoints(call, ws) :
                 /\ Persist(Commit(DB, ws, failAt))
                 /\ response' = Response(call, CommitResult(failAt))
  /\ UNCHANGED sessions

\* The service called on its own: nothing in StockService or ProductService
\* reaches the websocket manager.
Call(call, check, ws) ==
  /\ Service(call, check, ws)
  /\ UNCHANGED <<broadcasts, realtime>>

create_stock_movement(movement_data) ==
  Call("create_stock_movement",
       create_stock_movement_check(DB, movement_data),
       create_stock_movement_writes(DB, movement_data))

create_stock_transfer(transfer_data) ==
  Call("create_stock_transfer",
       create_stock_transfer_check(DB, transfer_data),
       create_stock_transfer_writes(DB, transfer_data))

complete_stock_transfer(transfer_id) ==
  Call("complete_stock_transfer",
       complete_stock_transfer_check(DB, transfer_id),
       IF TransferExists(DB, transfer_id)
         THEN complete_stock_transfer_writes(DB, transfer_id) ELSE << >>)

cancel_stock_transfer(transfer_id) ==
  Call("cancel_stock_transfer",
       cancel_stock_transfer_check(DB, transfer_id),
       cancel_stock_transfer_writes(DB, transfer_id))

\* Request payloads (StockMovementCreate, StockTransferCreate) of the calls
\* that do not overlap: one kind of each sign policy, with either sign of
\* input for the kinds that force the sign, and the adjustments that take
\* stock out (those that add stock do what a purchase does; MovementSpec has
\* them).
Quantities == {-1, 1}

MovementRequests ==
  {movement_data \in
     [product_id : ProductIds,
      warehouse_id : WarehouseIds,
      movement_type : {"purchase", "sale", "adjustment"},
      quantity : Quantities,
      unit_cost : {None}, reference_number : {NULL}] :
     movement_data.movement_type = "adjustment" => movement_data.quantity < 0}

\* StockTransferBase.quantity is Field(gt=0).
TransferRequests ==
  [product_id : ProductIds,
   from_warehouse_id : WarehouseIds,
   to_warehouse_id : WarehouseIds,
   quantity : {1}]

\* Transfer ids a request may name: the rows there can be, and one more.
TransferIdRequests == 1..(MaxTransfers + 1)

Init ==
  /\ products = [p \in ProductIds |-> [is_active |-> TRUE]]
  /\ warehouses = [w \in WarehouseIds |-> [is_active |-> TRUE]]
  /\ movements = << >>
  /\ transfers = << >>
  /\ sessions = [s \in SessionIds |-> IdleSession]
  /\ response = Response(NULL, NULL)
  /\ broadcasts = << >>
  /\ ManagerInit

Next ==
  \/ \E movement_data \in MovementRequests : create_stock_movement(movement_data)
  \/ \E transfer_data \in TransferRequests : create_stock_transfer(transfer_data)
  \/ \E transfer_id \in TransferIdRequests : complete_stock_transfer(transfer_id)
  \/ \E transfer_id \in TransferIdRequests : cancel_stock_transfer(transfer_id)

Spec == Init /\ [][Next]_vars

\* The movements of one (product, warehouse) alone: inbound, every outbound
\* kind and adjustments, with magnitudes below, at and above the stock; the
\* sale and the adjustment with either sign of input.
GuardMovementRequests ==
  {movement_data \in
     [product_id : {1},
      warehouse_id : {1},
      movement_type : {"purchase", "sale", "damaged", "transfer_out", "adjustment"},
      quantity : {-2, -1, 1, 2},
      unit_cost : {None}, reference_number : {NULL}] :
     movement_data.movement_type \in {"purchase", "damaged", "transfer_out"}
       => movement_data.quantity > 0}

MovementNext ==
  \E movement_data \in GuardMovementRequests : create_stock_movement(movement_data)

MovementSpec == Init /\ [][MovementNext]_vars

\* ------------------------------------------------------------------ the API handlers
\* StockMovementCreate: quantity is any int; unit_cost, when given, is >= 0.
StockMovementCreate_validate(movement_data) ==
  movement_data.unit_cost # None => movement_data.unit_cost[1] >= 0

\* StockTransferCreate accepting a quantity of 0 (ge for gt).
StockTransferCreate_validate_ge_0(transfer_data) ==
  transfer_data.quantity >= 0

\* StockTransferCreate: quantity is Field(gt=0).
StockTransferCreate_validate(transfer_data) ==
  transfer_data.quantity > 0

\* The request body does not validate: FastAPI answers 422 before the
\* handler runs.
Unprocessable(call) ==
  /\ \A s \in SessionIds : sessions[s].pc = "idle"
  /\ response' = Response(call, "validation_error")
  /\ UNCHANGED <<tables, sessions, broadcasts, realtime>>

\* ------------------------------------------------------------------ ownership
\* The created_by column of the rows a service call inserts (user_id).
WithCreator(ws, user_id) ==
  [i \in DOMAIN ws |->
     IF "row" \in DOMAIN ws[i]
       THEN [ws[i] EXCEPT !.row = @ @@ [created_by |-> user_id]]
       ELSE ws[i]]

\* OwnershipValidator.can_edit_product
can_edit_product(db, product_id, current_user) ==
  IF users[current_user].is_admin THEN TRUE
  ELSE IF product_id \notin DOMAIN db.products THEN FALSE
  ELSE db.products[product_id].created_by = current_user

\* OwnershipValidator.can_edit_stock_transfer asking for the creator of the
\* transfer's product instead of the creator of the transfer.
can_edit_stock_transfer_product_creator(db, transfer_id, current_user) ==
  IF users[current_user].is_admin THEN TRUE
  ELSE IF ~TransferExists(db, transfer_id) THEN FALSE
  ELSE db.products[db.transfers[transfer_id].product_id].created_by = current_user

\* OwnershipValidator.can_edit_stock_transfer
can_edit_stock_transfer(db, transfer_id, current_user) ==
  IF users[current_user].is_admin THEN TRUE
  ELSE IF ~TransferExists(db, transfer_id) THEN FALSE
  ELSE db.transfers[transfer_id].created_by = current_user

\* OwnershipValidator.ensure_product_edit_permission: 404 or 403.
ensure_product_edit_permission(db, product_id, current_user) ==
  IF can_edit_product(db, product_id, current_user) THEN "ok"
  ELSE IF product_id \notin DOMAIN db.products THEN "not_found"
  ELSE "forbidden"

\* OwnershipValidator.ensure_stock_transfer_edit_permission: 404 or 403.
ensure_stock_transfer_edit_permission(db, transfer_id, current_user) ==
  IF can_edit_stock_transfer(db, transfer_id, current_user) THEN "ok"
  ELSE IF ~TransferExists(db, transfer_id) THEN "not_found"
  ELSE "forbidden"

\* The HTTPException of the ownership check: the handler ends before the
\* service is constructed.
Refused(call, permission) ==
  /\ \A s \in SessionIds : sessions[s].pc = "idle"
  /\ response' = Response(call, permission)
  /\ UNCHANGED <<tables, sessions, broadcasts, realtime>>

\* The handler after the service has returned: the model_dump() of the
\* transfer, whose created_at is a datetime, is handed to
\* broadcast_stock_transfer; when the service raised, the handler is left
\* before it.  json.dumps raises before send_text is awaited, so the handler
\* is never suspended.  The sockets of the users dropped from the manager
\* stay open.
Broadcast(action, transfer_id) ==
  IF response'.outcome = "ok"
    THEN /\ ws_manager' =
              broadcast_stock_transfer(ws_manager, [action |-> action, json |-> FALSE])
         /\ broadcasts' =
              Append(broadcasts,
                     [action |-> action, transfer |-> transfer_id,
                      failed |-> DOMAIN ws_manager.active_connections
                                   \ DOMAIN ws_manager'.active_connections,
                      pc |-> "done"])
         /\ UNCHANGED websockets
    ELSE UNCHANGED <<broadcasts, realtime>>

\* POST /stock-movements/ by current_user.
post_stock_movement(current_user, movement_data) ==
  LET permission ==
        ensure_product_edit_permission(DB, movement_data.product_id, current_user) IN
  IF ~StockMovementCreate_validate(movement_data)
    THEN Unprocessable("create_stock_movement")
  ELSE IF permission # "ok"
    THEN Refused("create_stock_movement", permission)
  ELSE /\ Service("create_stock_movement",
                  create_stock_movement_check(DB, movement_data),
                  WithCreator(create_stock_movement_writes(DB, movement_data),
                              current_user))
       /\ UNCHANGED <<broadcasts, realtime>>

\* POST /stock-transfers/ by current_user.
post_stock_transfer(current_user, transfer_data) ==
  LET permission ==
        ensure_product_edit_permission(DB, transfer_data.product_id, current_user) IN
  IF ~StockTransferCreate_validate(transfer_data)
    THEN Unprocessable("create_stock_transfer")
  ELSE IF permission # "ok"
    THEN Refused("create_stock_transfer", permission)
  ELSE /\ Service("create_stock_transfer",
                  create_stock_transfer_check(DB, transfer_data),
                  WithCreator(create_stock_transfer_writes(DB, transfer_data),
                              current_user))
       /\ Broadcast("created", Len(transfers'))

\* PUT /stock-transfers/{transfer_id}/complete by current_user.
put_stock_transfer_complete(current_user, transfer_id) ==
  LET permission ==
        ensure_stock_transfer_edit_permission(DB, transfer_id, current_user) IN
  IF permission # "ok"
    THEN Refused("complete_stock_transfer", permission)
  ELSE /\ Service("complete_stock_transfer",
                  complete_stock_transfer_check(DB, transfer_id),
                  IF TransferExists(DB, transfer_id)
                    THEN WithCreator(complete_stock_transfer_writes(DB, transfer_id),
                                     current_user)
                    ELSE << >>)
       /\ Broadcast("completed", transfer_id)

\* PUT /stock-transfers/{transfer_id}/cancel by current_user.
put_stock_transfer_cancel(current_user, transfer_id) ==
  LET permission ==
        ensure_stock_transfer_edit_permission(DB, transfer_id, current_user) IN
  IF permission # "ok"
    THEN Refused("cancel_stock_transfer", permission)
  ELSE /\ Service("cancel_stock_transfer",
                  cancel_stock_transfer_check(DB, transfer_id),
                  cancel_stock_transfer_writes(DB, transfer_id))
       /\ Broadcast("cancelled", transfer_id)

\* ------------------------------------------------------------------ OwnedSpec
\* Purchases of product 1 and of the missing product 2; transfers of product
\* 1, one of them with a body that does not validate.
OwnedMovementRequests ==
  [product_id : {1, 2}, warehouse_id : {1}, movement_type : {"purchase"},
   quantity : {1}, unit_cost : {None}, reference_number : {NULL}]

OwnedTransferRequests ==
  [product_id : {1}, from_warehouse_id : {1}, to_warehouse_id : {2},
   quantity : {0, 1}]

\* Product 1 was created by user 1.
OwnedInit ==
  /\ products = [p \in ProductIds |-> [is_active |-> TRUE, created_by |-> 1]]
  /\ warehouses = [w \in WarehouseIds |-> [is_active |-> TRUE]]
  /\ movements = << >>
  /\ transfers = << >>
  /\ sessions = [s \in SessionIds |-> IdleSession]
  /\ response = Response(NULL, NULL)
  /\ broadcasts = << >>
  /\ ManagerInit

\* Movements are requested while the bounded ledger keeps room for the two
\* rows of a completion.
OwnedNext ==
  \/ /\ Len(movements) + 2 < MaxMovements
     /\ \E current_user \in UserIds, movement_data \in OwnedMovementRequests :
          post_stock_movement(current_user, movement_data)
  \/ \E current_user \in UserIds, transfer_data \in OwnedTransferRequests :
       post_stock_transfer(current_user, transfer_data)
  \/ \E current_user \in UserIds, transfer_id \in TransferIdRequests :
       put_stock_transfer_complete(current_user, transfer_id)
  \/ \E current_user \in UserIds, transfer_id \in TransferIdRequests :
       put_stock_transfer_cancel(current_user, transfer_id)

OwnedSpec == OwnedInit /\ [][OwnedNext]_vars

\* ------------------------------------------------------------------ ApiSpec
\* Request bodies: quantities of 0 and below among them.
ApiMovementRequests ==
  [product_id : {1}, warehouse_id : {1}, movement_type : {"purchase", "sale"},
   quantity : {0, 1}, unit_cost : {None}, reference_number : {NULL}]

ApiTransferRequests ==
  [product_id : {1}, from_warehouse_id : {1}, to_warehouse_id : {2},
   quantity : {-1, 0, 1}]

\* The callers: the creator of product 1 and another user.
ApiUserIds == {1, 2}

ApiNext ==
  \/ \E current_user \in ApiUserIds, movement_data \in ApiMovementRequests :
       post_stock_movement(current_user, movement_data)
  \/ \E current_user \in ApiUserIds, transfer_data \in ApiTransferRequests :
       post_stock_transfer(current_user, transfer_data)
  \/ \E current_user \in ApiUserIds, transfer_id \in TransferIdRequests :
       put_stock_transfer_complete(current_user, transfer_id)
  \/ \E current_user \in ApiUserIds, transfer_id \in TransferIdRequests :
       put_stock_transfer_cancel(current_user, transfer_id)

ApiSpec == OwnedInit /\ [][ApiNext]_vars

\* ------------------------------------------------------------------ WsSpec
WsNext ==
  \/ \E websocket \in WebSocketIds, user_id \in WsUserIds :
       websocket_endpoint_connect(websocket, user_id)
  \/ \E websocket \in WebSocketIds, message_type \in {"subscribe", "unsubscribe"},
        channel \in RequestedChannels :
       handle_websocket_message(websocket, message_type, channel)
  \/ \E websocket \in WebSocketIds : websocket_endpoint_close(websocket)

WsSpec == Init /\ [][WsNext]_vars

\* ------------------------------------------------------------------ movements with a unit cost
\* Purchases and sales at warehouse 1 with no unit cost, with one of 0.250
\* and with one of 0.004 (StockMovementBase.unit_cost is a Decimal >= 0 of
\* any scale).
CostMovementRequests ==
  {movement_data \in
     [product_id : {1}, warehouse_id : {1}, movement_type : {"purchase", "sale"},
      quantity : {1, 3}, unit_cost : {None, <<4>>, <<250>>},
      reference_number : {NULL}] :
     movement_data.movement_type = "sale" =>
       movement_data.quantity = 1 /\ movement_data.unit_cost # <<4>>}

CostNext ==
  \E movement_data \in CostMovementRequests : create_stock_movement(movement_data)

CostSpec == Init /\ [][CostNext]_vars

\* ------------------------------------------------------------------ every kind with either sign
\* Movements of every kind at warehouse 1, entered with either sign, and
\* transfers from warehouse 1 to warehouse 2 with their completion.
SignMovementRequests ==
  [product_id : {1}, warehouse_id : {1}, movement_type : MovementType,
   quantity : {-1, 1}, unit_cost : {None}, reference_number : {NULL}]

SignTransferRequests ==
  [product_id : {1}, from_warehouse_id : {1}, to_warehouse_id : {2}, quantity : {1}]

SignNext ==
  \/ \E movement_data \in SignMovementRequests : create_stock_movement(movement_data)
  \/ \E transfer_data \in SignTransferRequests : create_stock_transfer(transfer_data)
  \/ \E transfer_id \in TransferIdRequests : complete_stock_transfer(transfer_id)

SignSpec == Init /\ [][SignNext]_vars

\* ------------------------------------------------------------------ transfers of one product
\* Stock arrives at warehouse 1 and leaves it by sale; transfers of 1 or 2
\* units go either way, or name one warehouse twice.
TransferMovementRequests ==
  [product_id : {1}, warehouse_id : {1}, movement_type : {"purchase", "sale"},
   quantity : {1}, unit_cost : {None}, reference_number : {NULL}]

TransferQuantityRequests ==
  [product_id : ProductIds,
   from_warehouse_id : WarehouseIds,
   to_warehouse_id : WarehouseIds,
   quantity : {1, 2}]

TransferNext ==
  \/ \E movement_data \in TransferMovementRequests : create_stock_movement(movement_data)
  \/ \E transfer_data \in TransferQuantityRequests : create_stock_transfer(transfer_data)
  \/ \E transfer_id \in TransferIdRequests : complete_stock_transfer(transfer_id)
  \/ \E transfer_id \in TransferIdRequests : cancel_stock_transfer(transfer_id)

TransferSpec == Init /\ [][TransferNext]_vars

\* ------------------------------------------------------------------ products and warehouses that are not there
\* Requests may name a product (2) or a warehouse (3) that has no row; the
\* product can be soft-deleted; warehouse 2, whose row is written outside
\* the API, is active or not.
delete_product(product_id) ==
  Call("delete_product",
       delete_product_check(DB, product_id),
       delete_product_writes(DB, product_id))

CatalogProductIds == {1, 2}
CatalogWarehouseIds == {1, 2, 3}

CatalogMovementRequests ==
  [product_id : CatalogProductIds,
   warehouse_id : CatalogWarehouseIds,
   movement_type : {"purchase", "sale"},
   quantity : {1},
   unit_cost : {None}, reference_number : {NULL}]

CatalogTransferRequests ==
  [product_id : CatalogProductIds,
   from_warehouse_id : CatalogWarehouseIds,
   to_warehouse_id : CatalogWarehouseIds,
   quantity : {1}]

CatalogInit ==
  /\ products = [p \in ProductIds |-> [is_active |-> TRUE]]
  /\ \E active \in BOOLEAN :
       warehouses = [w \in WarehouseIds |-> [is_active |-> (w = 1 \/ active)]]
  /\ movements = << >>
  /\ transfers = << >>
  /\ sessions = [s \in SessionIds |-> IdleSession]
  /\ response = Response(NULL, NULL)
  /\ broadcasts = << >>
  /\ ManagerInit

CatalogNext ==
  \/ \E movement_data \in CatalogMovementRequests : create_stock_movement(movement_data)
  \/ \E transfer_data \in CatalogTransferRequests : create_stock_transfer(transfer_data)
  \/ \E transfer_id \in TransferIdRequests : complete_stock_transfer(transfer_id)
  \/ \E transfer_id \in TransferIdRequests : cancel_stock_transfer(transfer_id)
  \/ \E product_id \in CatalogProductIds : delete_product(product_id)

CatalogSpec == CatalogInit /\ [][CatalogNext]_vars

\* The movements and the soft delete alone.
ProductNext ==
  \/ \E movement_data \in CatalogMovementRequests : create_stock_movement(movement_data)
  \/ \E product_id \in CatalogProductIds : delete_product(product_id)

ProductSpec == CatalogInit /\ [][ProductNext]_vars

\* ------------------------------------------------------------------ CancelSpec
\* One product moved between the two warehouses, sold, transferred and
\* soft-deleted while its transfers are pending.
CancelMovementRequests ==
  [product_id : ProductIds, warehouse_id : {1}, movement_type : {"purchase", "sale"},
   quantity : {1}, unit_cost : {None}, reference_number : {NULL}]

CancelTransferRequests ==
  [product_id : ProductIds, from_warehouse_id : {1}, to_warehouse_id : {2},
   quantity : {1}]

CancelNext ==
  \/ \E movement_data \in CancelMovementRequests : create_stock_movement(movement_data)
  \/ \E transfer_data \in CancelTransferRequests : create_stock_transfer(transfer_data)
  \/ \E transfer_id \in TransferIdRequests : complete_stock_transfer(transfer_id)
  \/ \E transfer_id \in TransferIdRequests : cancel_stock_transfer(transfer_id)
  \/ \E product_id \in ProductIds : delete_product(product_id)

CancelSpec == Init /\ [][CancelNext]_vars

\* ------------------------------------------------------------------ SkuSpec
\* The product catalogue alone: create, update and soft delete.
MaxProducts == 3    \* product rows

Skus == {"A", "B", "C", "D"}

\* ProductCreate, by its SKU.
ProductCreateRequests == [sku : Skus]

\* ProductUpdate, by the fields set among sku and is_active.
ProductUpdateRequests ==
  [sku : Skus] \cup [is_active : BOOLEAN] \cup [sku : Skus, is_active : BOOLEAN]

SkuProductIds == 1..(MaxProducts + 1)

create_product(product_data) ==
  /\ \/ create_product_check(DB, product_data) # "ok"
     \/ Cardinality(DOMAIN products) < MaxProducts
  /\ Call("create_product",
          create_product_check(DB, product_data),
          create_product_writes(DB, product_data))

update_product(product_id, product_data) ==
  Call("update_product",
       update_product_check(DB, product_id, product_data),
       update_product_writes(DB, product_id, product_data))

SkuInit ==
  /\ products = << >>
  /\ warehouses = [w \in WarehouseIds |-> [is_active |-> TRUE]]
  /\ movements = << >>
  /\ transfers = << >>
  /\ sessions = [s \in SessionIds |-> IdleSession]
  /\ response = Response(NULL, NULL)
  /\ broadcasts = << >>
  /\ ManagerInit

SkuNext ==
  \/ \E product_data \in ProductCreateRequests : create_product(product_data)
  \/ \E product_id \in SkuProductIds, product_data \in ProductUpdateRequests :
       update_product(product_id, product_data)
  \/ \E product_id \in SkuProductIds : delete_product(product_id)

SkuSpec == SkuInit /\ [][SkuNext]_vars

\* ------------------------------------------------------------------ the product handlers
\* The service call of a handler that goes on after it: what the call leaves
\* in the tables, and what it returned or raised (outcome).
ServiceCall(call, check, ws, outcome) ==
  /\ \A s \in SessionIds : sessions[s].pc = "idle"
  /\ IF check # "ok"
       THEN /\ outcome = check
            /\ UNCHANGED tables
       ELSE /\ RoomFor(ws)
            /\ \E failAt \in FailPoints(call, ws) :
                 /\ Persist(Commit(DB, ws, failAt))
                 /\ outcome = CommitResult(failAt)
  /\ UNCHANGED sessions

\* broadcast_to_channel with a message json.dumps takes, from the
\* subscribers of its snapshot still to visit (todo, visited in ascending
\* order, as CPython iterates a set of small ints): the handler runs to the
\* next await of websocket.send_text and is suspended there (outcome NULL).
\* When no subscriber with a connection is left, disconnected_users are
\* disconnected and the handler goes on: after the products channel
\* delete_product counts the products (get_products, a query that can fail)
\* and starts the broadcast to the dashboard; after the dashboard the handler
\* returns (nothing is left to send).
RECURSIVE Resume(_, _, _, _, _, _)
Resume(call, channel, m, todo, disconnected_users, get_products) ==
  LET connected == {user_id \in todo : user_id \in DOMAIN m.active_connections} IN
  IF connected # {}
    THEN LET user_id == CHOOSE u \in connected : \A v \in connected : u <= v IN
         [m |-> m, channel |-> channel,
          sending |-> << user_id, << m.active_connections[user_id] >> >>,
          todo |-> {u \in todo : u > user_id},
          disconnected_users |-> disconnected_users, outcome |-> NULL]
    ELSE LET cleaned == DisconnectAll(m, disconnected_users) IN
         IF call = "delete_product" /\ channel = "products"
           THEN IF get_products = "db_error"
                  THEN [m |-> cleaned, outcome |-> "db_error"]
                  ELSE Resume(call, "dashboard", cleaned,
                              cleaned.channel_subscriptions["dashboard"], {},
                              get_products)
           ELSE [m |-> cleaned, outcome |-> "ok"]

\* The handler has run to r: the manager as it left it, its entry i of
\* broadcasts (what it handed to the manager about a product, the users the
\* manager dropped over it and, while it is suspended, where it is), and its
\* answer once it has returned.
RunTo(i, call, action, product_id, failed, r) ==
  LET dropped == failed \cup (DOMAIN ws_manager.active_connections
                                \ DOMAIN r.m.active_connections)
      entry == IF r.outcome = NULL
                 THEN [action |-> action, product |-> product_id, failed |-> dropped,
                       pc |-> "send_text", call |-> call, channel |-> r.channel,
                       sending |-> r.sending, todo |-> r.todo,
                       disconnected_users |-> r.disconnected_users]
                 ELSE [action |-> action, product |-> product_id, failed |-> dropped,
                       pc |-> "done"]
  IN
  /\ ws_manager' = r.m
  /\ broadcasts' = IF i > Len(broadcasts) THEN Append(broadcasts, entry)
                   ELSE [broadcasts EXCEPT ![i] = entry]
  /\ response' = IF r.outcome = NULL THEN response ELSE Response(call, r.outcome)
  /\ UNCHANGED websockets

\* POST /products/ by current_user, up to its first await of send_text: the
\* product is stored, its model_dump() (created_at is a datetime, json.dumps
\* raises) goes to the products channel, the products are counted
\* (get_products) and the count is broadcast to the dashboard.
post_product(current_user, product_data) ==
  LET check == create_product_check(DB, product_data) IN
  \E outcome \in {check, "ok", "db_error"} :
    /\ ServiceCall("create_product", check,
                   WithCreator(create_product_writes(DB, product_data), current_user),
                   outcome)
    /\ IF outcome # "ok"
         THEN /\ response' = Response("create_product", outcome)
              /\ UNCHANGED <<broadcasts, realtime>>
         ELSE LET announced ==
                    broadcast_product_update(ws_manager,
                                             [action |-> "created", json |-> FALSE]) IN
              \E get_products \in {"ok", "db_error"} :
                RunTo(Len(broadcasts) + 1, "create_product", "created",
                      Cardinality(DOMAIN products'), {},
                      IF get_products = "db_error"
                        THEN [m |-> announced, outcome |-> "db_error"]
                        ELSE Resume("create_product", "dashboard", announced,
                                    announced.channel_subscriptions["dashboard"], {},
                                    get_products))

\* PUT /products/{product_id} by current_user: the model_dump() of the
\* updated product goes to the products channel; json.dumps raises on it, so
\* the handler is never suspended.
put_product(current_user, product_id, product_data) ==
  LET permission == ensure_product_edit_permission(DB, product_id, current_user) IN
  IF permission # "ok"
    THEN Refused("update_product", permission)
    ELSE /\ Service("update_product",
                    update_product_check(DB, product_id, product_data),
                    update_product_writes(DB, product_id, product_data))
         /\ IF response'.outcome = "ok"
              THEN /\ ws_manager' =
                        broadcast_product_update(ws_manager,
                                                 [action |-> "updated", json |-> FALSE])
                   /\ broadcasts' =
                        Append(broadcasts,
                               [action |-> "updated", product |-> product_id,
                                failed |-> DOMAIN ws_manager.active_connections
                                             \ DOMAIN ws_manager'.active_connections,
                                pc |-> "done"])
                   /\ UNCHANGED websockets
              ELSE UNCHANGED <<broadcasts, realtime>>

\* DELETE /products/{product_id} by current_user, up to its first await of
\* send_text: the product is soft-deleted and its id is broadcast to the
\* products channel, then the count of the products to the dashboard.
delete_products_id(current_user, product_id) ==
  LET permission == ensure_product_edit_permission(DB, product_id, current_user)
      check == delete_product_check(DB, product_id) IN
  IF permission # "ok"
    THEN Refused("delete_product", permission)
    ELSE \E outcome \in {check, "ok", "db_error"} :
           /\ ServiceCall("delete_product", check,
                          delete_product_writes(DB, product_id), outcome)
           /\ IF outcome # "ok"
                THEN /\ response' = Response("delete_product", outcome)
                     /\ UNCHANGED <<broadcasts, realtime>>
                ELSE \E get_products \in {"ok", "db_error"} :
                       RunTo(Len(broadcasts) + 1, "delete_product", "deleted",
                             product_id, {},
                             Resume("delete_product", "products", ws_manager,
                                    ws_manager.channel_subscriptions["products"], {},
                                    get_products))

\* The await of websocket.send_text of the suspended handler i resumes: the
\* text was sent, or send_text raised because the client has gone or the
\* socket is closed and the user is noted in disconnected_users; the handler
\* runs on to its next await or to its end.
send_text(i) ==
  /\ i \in DOMAIN broadcasts
  /\ broadcasts[i].pc = "send_text"
  /\ LET task == broadcasts[i]
         disconnected_users ==
           IF task.sending[2] # None /\ websockets[task.sending[2][1]].pc = "open"
             THEN task.disconnected_users
             ELSE task.disconnected_users \cup {task.sending[1]}
     IN \E get_products \in {"ok", "db_error"} :
          RunTo(i, task.call, task.action, task.product, task.failed,
                Resume(task.call, task.channel, ws_manager, task.todo,
                       disconnected_users, get_products))
  /\ UNCHANGED <<tables, sessions>>

\* ------------------------------------------------------------------ NotifySpec
\* The handlers called by the creator of product 1 (SKU A) while user 2 opens
\* a socket, subscribes, goes away and is disconnected; the handlers that
\* await send_text are suspended there, and the requests and the sockets go
\* on in between.
MaxBroadcasts == 2   \* entries of broadcasts (NotifySpec)

NotifyMovementRequests ==
  [product_id : {1}, warehouse_id : {1}, movement_type : {"purchase"},
   quantity : {1}, unit_cost : {None}, reference_number : {NULL}]

NotifyTransferRequests ==
  [product_id : {1}, from_warehouse_id : {1}, to_warehouse_id : {2}, quantity : {1}]

NotifyProductCreateRequests == [sku : {"A", "B"}]

NotifyProductUpdateRequests == [sku : {"C"}]

NotifyChannels == {"dashboard", "products", "stock_transfers"}

NotifyProductIds == {1, 2}

NotifyInit ==
  /\ products = [p \in ProductIds |-> [sku |-> "A", is_active |-> TRUE, created_by |-> 1]]
  /\ warehouses = [w \in WarehouseIds |-> [is_active |-> TRUE]]
  /\ movements = << >>
  /\ transfers = << >>
  /\ sessions = [s \in SessionIds |-> IdleSession]
  /\ response = Response(NULL, NULL)
  /\ broadcasts = << >>
  /\ ManagerInit

\* Requests arrive while broadcasts is short; the ledger keeps room for the
\* two rows of a completion and the products table holds two rows at most.
NotifyNext ==
  \/ /\ Len(broadcasts) < MaxBroadcasts
     /\ Len(movements) + 2 < MaxMovements
     /\ \E movement_data \in NotifyMovementRequests : post_stock_movement(1, movement_data)
  \/ /\ Len(broadcasts) < MaxBroadcasts
     /\ \E transfer_data \in NotifyTransferRequests : post_stock_transfer(1, transfer_data)
  \/ /\ Len(broadcasts) < MaxBroadcasts
     /\ \E transfer_id \in TransferIdRequests : put_stock_transfer_complete(1, transfer_id)
  \/ /\ Len(broadcasts) < MaxBroadcasts
     /\ \E transfer_id \in TransferIdRequests : put_stock_transfer_cancel(1, transfer_id)
  \/ /\ Len(broadcasts) < MaxBroadcasts
     /\ Cardinality(DOMAIN products) < Cardinality(NotifyProductIds)
     /\ \E product_data \in NotifyProductCreateRequests : post_product(1, product_data)
  \/ /\ Len(broadcasts) < MaxBroadcasts
     /\ \E product_id \in NotifyProductIds, product_data \in NotifyProductUpdateRequests :
          put_product(1, product_id, product_data)
  \/ /\ Len(broadcasts) < MaxBroadcasts
     /\ \E product_id \in NotifyProductIds : delete_products_id(1, product_id)
  \/ \E i \in 1..MaxBroadcasts : send_text(i)
  \/ websocket_endpoint_connect(1, 2)
  \/ \E channel \in NotifyChannels : handle_websocket_message(1, "subscribe", channel)
  \/ client_gone(1)
  \/ websocket_endpoint_close(1)

NotifySpec == NotifyInit /\ [][NotifyNext]_vars

\* ------------------------------------------------------------------ the sign policy alone
\* _calculate_movement_quantity applied to one input: every member of
\* MovementType with every magnitude of either sign up to MaxMagnitude.
MaxMagnitude == 8

CalculateCall(movement_type, input_quantity) ==
  [call |-> "_calculate_movement_quantity",
   movement_type |-> movement_type, input_quantity |-> input_quantity]

\* The call has returned.
Returned == "outcome" \in DOMAIN response

CalcInit ==
  /\ products = [p \in ProductIds |-> [is_active |-> TRUE]]
  /\ warehouses = [w \in WarehouseIds |-> [is_active |-> TRUE]]
  /\ movements = << >>
  /\ transfers = << >>
  /\ sessions = [s \in SessionIds |-> IdleSession]
  /\ \E movement_type \in MovementType, input_quantity \in (-MaxMagnitude)..MaxMagnitude :
       response = CalculateCall(movement_type, input_quantity)
  /\ broadcasts = << >>
  /\ ManagerInit

calculate_movement_quantity_call ==
  /\ ~Returned
  /\ response' =
       [call |-> response.call,
        movement_type |-> response.movement_type,
        input_quantity |-> response.input_quantity,
        outcome |-> calculate_movement_quantity(response.movement_type,
                                                response.input_quantity)]
  /\ UNCHANGED <<tables, sessions, broadcasts, realtime>>

CalcNext == calculate_movement_quantity_call

CalcSpec == CalcInit /\ [][CalcNext]_vars

\* ------------------------------------------------------------------ reading the stock
\* Movements of several magnitudes at two warehouses, and reads of the stock
\* of any (product, warehouse), product 2 having no row at all.
ReadProductIds == {1, 2}

ReadMovementRequests ==
  {movement_data \in
     [product_id : ProductIds,
      warehouse_id : WarehouseIds,
      movement_type : {"purchase", "sale"},
      quantity : {1, 2},
      unit_cost : {None}, reference_number : {NULL}] :
     movement_data.movement_type = "sale" => movement_data.quantity = 1}

\* StockService.get_product_stock_in_warehouse called on its own: the value
\* is returned, nothing is written.
read_product_stock(product_id, warehouse_id) ==
  /\ \A s \in SessionIds : sessions[s].pc = "idle"
  /\ response' =
       [call |-> "get_product_stock_in_warehouse",
        product_id |-> product_id, warehouse_id |-> warehouse_id,
        outcome |-> get_product_stock_in_warehouse(DB, product_id, warehouse_id)]
  /\ UNCHANGED <<tables, sessions, broadcasts, realtime>>

ReadNext ==
  \/ \E movement_data \in ReadMovementRequests : create_stock_movement(movement_data)
  \/ \E product_id \in ReadProductIds, warehouse_id \in WarehouseIds :
       read_product_stock(product_id, warehouse_id)

ReadSpec == Init /\ [][ReadNext]_vars

\* ------------------------------------------------------------------ overlapping requests
\* Each request runs StockService on its own Session (get_database), with no
\* lock and the database's default isolation: the handler's queries see what
\* is committed when they run, and its writes reach the database at commit.
ConcMaxMovements == 5   \* ledger rows (ConcSpec)

\* Rows already waiting in some session for their commit.
PendingInserts(stmt) ==
  LET RECURSIVE Sum(_)
      Sum(n) == IF n = 0 THEN 0
                ELSE Sum(n - 1) + (IF n \in SessionIds
                                     THEN Inserts(sessions[n].writes, stmt) ELSE 0)
  IN Sum(Cardinality(SessionIds))

ConcRoomFor(ws) ==
  /\ Len(movements) + PendingInserts("insert_movement") + Inserts(ws, "insert_movement")
       <= ConcMaxMovements
  /\ Len(transfers) + PendingInserts("insert_transfer") + Inserts(ws, "insert_transfer")
       <= MaxTransfers

\* The handler up to its self.db.commit(): the queries and the validation run
\* against the committed database; the rows added and attributes set wait in
\* the session.
Begin(s, call, check, ws) ==
  /\ sessions[s].pc = "idle"
  /\ IF check # "ok"
       THEN /\ response' = Response(call, check)
            /\ UNCHANGED sessions
       ELSE /\ ConcRoomFor(ws)
            /\ sessions' = [sessions EXCEPT ![s] =
                              [pc |-> "commit", call |-> call, transfer |-> NULL,
                               writes |-> ws]]
            /\ UNCHANGED response
  /\ UNCHANGED <<tables, broadcasts, realtime>>

begin_create_stock_movement(s, movement_data) ==
  Begin(s, "create_stock_movement",
        create_stock_movement_check(DB, movement_data),
        create_stock_movement_writes(DB, movement_data))

begin_create_stock_transfer(s, transfer_data) ==
  Begin(s, "create_stock_transfer",
        create_stock_transfer_check(DB, transfer_data),
        create_stock_transfer_writes(DB, transfer_data))

\* complete_stock_transfer on session s up to its first query: the transfer
\* row is read and held by the session.
begin_complete_stock_transfer(s, transfer_id) ==
  /\ sessions[s].pc = "idle"
  /\ IF complete_stock_transfer_find(DB, transfer_id) # "ok"
       THEN /\ response' = Response("complete_stock_transfer",
                                    complete_stock_transfer_find(DB, transfer_id))
            /\ UNCHANGED sessions
       ELSE /\ sessions' = [sessions EXCEPT ![s] =
                              [pc |-> "recheck", call |-> "complete_stock_transfer",
                               transfer |-> [id |-> transfer_id]
                                              @@ transfers[transfer_id],
                               writes |-> << >>]]
            /\ UNCHANGED response
  /\ UNCHANGED <<tables, broadcasts, realtime>>

\* complete_stock_transfer on session s from its second query on: the stock
\* is summed over what is committed now, tested against the row read
\* before, and the two movements and the status wait for the commit.
recheck_complete_stock_transfer(s) ==
  LET transfer == sessions[s].transfer
      check == complete_stock_transfer_recheck(DB, transfer)
      ws == complete_stock_transfer_writes(DB, transfer.id)
  IN
  /\ sessions[s].pc = "recheck"
  /\ IF check # "ok"
       THEN /\ response' = Response("complete_stock_transfer", check)
            /\ sessions' = [sessions EXCEPT ![s] = IdleSession]
       ELSE /\ ConcRoomFor(ws)
            /\ sessions' = [sessions EXCEPT ![s] =
                              [pc |-> "commit", call |-> "complete_stock_transfer",
                               transfer |-> NULL, writes |-> ws]]
            /\ UNCHANGED response
  /\ UNCHANGED <<tables, broadcasts, realtime>>

begin_cancel_stock_transfer(s, transfer_id) ==
  Begin(s, "cancel_stock_transfer",
        cancel_stock_transfer_check(DB, transfer_id),
        cancel_stock_transfer_writes(DB, transfer_id))

\* self.db.commit() of the handler running on session s: the flush and the
\* COMMIT.  A call that refreshes its row has that SELECT still to run, and
\* answers after it; the other sessions can commit in between.
commit(s) ==
  /\ sessions[s].pc = "commit"
  /\ \E failAt \in FailPoints(sessions[s].call, sessions[s].writes) \ {AtRefresh} :
       /\ Persist(Commit(DB, sessions[s].writes, failAt))
       /\ IF failAt = 0 /\ sessions[s].call \in Refreshes
            THEN /\ sessions' = [sessions EXCEPT ![s] =
                                   [pc |-> "refresh", call |-> sessions[s].call,
                                    transfer |-> NULL, writes |-> << >>]]
                 /\ UNCHANGED response
            ELSE /\ response' = Response(sessions[s].call, CommitResult(failAt))
                 /\ sessions' = [sessions EXCEPT ![s] = IdleSession]
  /\ UNCHANGED <<broadcasts, realtime>>

\* self.db.refresh(row) of the handler running on session s, and its return:
\* the SELECT reads the row as it is committed now, or fails and the
\* exception leaves the handler with its writes committed.
refresh(s) ==
  /\ sessions[s].pc = "refresh"
  /\ \E failAt \in {0, AtRefresh} :
       response' = Response(sessions[s].call, CommitResult(failAt))
  /\ sessions' = [sessions EXCEPT ![s] = IdleSession]
  /\ UNCHANGED <<tables, broadcasts, realtime>>

\* Requests of the overlapping calls: stock arrives at warehouse 1 and leaves
\* it by sale or by transfer to warehouse 2.
ConcMovementRequests ==
  [product_id : {1}, warehouse_id : {1}, movement_type : {"purchase", "sale"},
   quantity : {1}, unit_cost : {None}, reference_number : {NULL}]

ConcTransferRequests ==
  [product_id : {1}, from_warehouse_id : {1}, to_warehouse_id : {2}, quantity : {1}]

ConcNext ==
  \/ \E s \in SessionIds, movement_data \in ConcMovementRequests :
       begin_create_stock_movement(s, movement_data)
  \/ \E s \in SessionIds, transfer_data \in ConcTransferRequests :
       begin_create_stock_transfer(s, transfer_data)
  \/ \E s \in SessionIds, transfer_id \in TransferIdRequests :
       begin_complete_stock_transfer(s, transfer_id)
  \/ \E s \in SessionIds : recheck_complete_stock_transfer(s)
  \/ \E s \in SessionIds, transfer_id \in TransferIdRequests :
       begin_cancel_stock_transfer(s, transfer_id)
  \/ \E s \in SessionIds : commit(s)
  \/ \E s \in SessionIds : refresh(s)

ConcSpec == Init /\ [][ConcNext]_vars

\* ------------------------------------------------------------------ reading the ledger
Stock(product_id, warehouse_id) ==
  get_product_stock_in_warehouse(DB, product_id, warehouse_id)

StockAfter(product_id, warehouse_id) ==
  get_product_stock_in_warehouse(DB', product_id, warehouse_id)

\* Stock of a product over a set of warehouses.
RECURSIVE TotalStock(_, _, _)
TotalStock(db, product_id, ws) ==
  IF ws = {} THEN 0
  ELSE LET w == CHOOSE x \in ws : TRUE IN
       get_product_stock_in_warehouse(db, product_id, w)
         + TotalStock(db, product_id, ws \ {w})

\* Ledger rows of a kind carrying the reference of transfer id.
TransferRows(id, movement_type) ==
  {i \in DOMAIN movements :
     /\ movements[i].reference_number = TransferReference(id)
     /\ movements[i].movement_type = movement_type}

ReferencedRows(id) ==
  {i \in DOMAIN movements : movements[i].reference_number = TransferReference(id)}

\* ------------------------------------------------------------------ claims (Spec, MovementSpec)

\* C1: after any sequence of non-overlapping create_stock_movement,
\* create_stock_transfer, complete_stock_transfer and cancel_stock_transfer
\* calls from an empty ledger, the summed quantity of every (product,
\* warehouse) pair is >= 0.
C1_StockNeverNegative ==
  \A p \in ProductIds, w \in WarehouseIds : Stock(p, w) >= 0

\* A ledger holding a negative adjustment and a completed transfer, with a
\* warehouse drawn down to exactly 0.
C1_Witness ==
  /\ \E i \in DOMAIN movements :
       movements[i].movement_type = "adjustment" /\ movements[i].quantity < 0
  /\ \E t \in DOMAIN transfers : transfers[t].status = "completed"
  /\ \E w \in WarehouseIds : Stock(1, w) = 0

\* C5: a successful complete_stock_transfer of a transfer of quantity q takes
\* exactly q from the stock of (product, source), adds exactly q to the stock
\* of (product, destination), leaves every other pair's stock as it was and
\* leaves the product's total over all warehouses unchanged.
C5_CompleteConservesStock ==
  [][\A transfer_id \in TransferIdRequests :
       (complete_stock_transfer(transfer_id) /\ response'.outcome = "ok") =>
         LET t == transfers[transfer_id] IN
         /\ \A p \in ProductIds, w \in WarehouseIds :
              StockAfter(p, w) =
                Stock(p, w)
                + (IF p = t.product_id /\ w = t.from_warehouse_id THEN -t.quantity
                   ELSE IF p = t.product_id /\ w = t.to_warehouse_id THEN t.quantity
                   ELSE 0)
         /\ TotalStock(DB', t.product_id, WarehouseIds)
              = TotalStock(DB, t.product_id, WarehouseIds)]_vars

\* A completion has just succeeded, with stock left at the source.
C5_Witness ==
  /\ response = Response("complete_stock_transfer", "ok")
  /\ \E t \in DOMAIN transfers :
       /\ transfers[t].status = "completed"
       /\ Stock(transfers[t].product_id, transfers[t].from_warehouse_id) > 0
       /\ Stock(transfers[t].product_id, transfers[t].to_warehouse_id) > 0

\* C6: a persistence failure at any statement of complete_stock_transfer's
\* flush or at its COMMIT leaves the database as it was (the transfer
\* pending, no TRANSFER-{id} row); a completion changes nothing or records
\* both rows and the completed status together; and in no state is one of
\* the two rows recorded without the other, or a transfer completed without
\* both.
C6_CompleteIsAllOrNothing ==
  /\ [](\A transfer_id \in DOMAIN transfers :
          (/\ transfers[transfer_id].status = "pending"
           /\ Stock(transfers[transfer_id].product_id,
                    transfers[transfer_id].from_warehouse_id)
                >= transfers[transfer_id].quantity) =>
            LET ws == complete_stock_transfer_writes(DB, transfer_id) IN
            \A failAt \in 1..(Len(ws) + 1) :
              /\ Commit(DB, ws, failAt) = DB
              /\ ReferencedRows(transfer_id) = {})
  /\ [][/\ \A transfer_id \in TransferIdRequests :
             (/\ response'.call = "complete_stock_transfer"
              /\ complete_stock_transfer(transfer_id)) =>
               \/ UNCHANGED tables
               \/ /\ transfers'[transfer_id].status = "completed"
                  /\ Cardinality(TransferRows(transfer_id, "transfer_out")') = 1
                  /\ Cardinality(TransferRows(transfer_id, "transfer_in")') = 1
        /\ \A t \in DOMAIN transfers' :
             /\ Cardinality(TransferRows(t, "transfer_out")')
                  = Cardinality(TransferRows(t, "transfer_in")')
             /\ transfers'[t].status = "completed" =>
                  /\ TransferRows(t, "transfer_out")' # {}
                  /\ TransferRows(t, "transfer_in")' # {}]_vars

\* A completion has just failed in its writes.
C6_Witness ==
  /\ response = Response("complete_stock_transfer", "db_error")
  /\ \E t \in DOMAIN transfers :
       /\ transfers[t].status = "pending"
       /\ Stock(transfers[t].product_id, transfers[t].from_warehouse_id)
            >= transfers[t].quantity

\* C7: a completed or cancelled transfer never changes again; complete and
\* cancel on a transfer that is not pending fail with the invalid-state error
\* and change neither the transfers nor the ledger.
C7_TerminalStatesAreFinal ==
  [][\A t \in DOMAIN transfers :
       transfers[t].status # "pending" =>
         /\ t \in DOMAIN transfers' /\ transfers'[t] = transfers[t]
         /\ complete_stock_transfer(t) =>
              response'.outcome = "not_pending" /\ UNCHANGED tables
         /\ cancel_stock_transfer(t) =>
              response'.outcome = "not_pending" /\ UNCHANGED tables]_vars

\* cancel_stock_transfer has just been refused on a completed transfer.
C7_Witness ==
  /\ response = Response("cancel_stock_transfer", "not_pending")
  /\ \E t \in DOMAIN transfers : transfers[t].status = "completed"

\* C24: complete_stock_transfer and cancel_stock_transfer on a transfer id
\* that has no row report not-found and change neither a transfer nor the
\* ledger.
C24_MissingTransferNotFound ==
  [][\A transfer_id \in TransferIdRequests :
       (/\ transfer_id \notin DOMAIN transfers
        /\ response'.call \in {"complete_stock_transfer", "cancel_stock_transfer"}
        /\ \/ complete_stock_transfer(transfer_id)
           \/ cancel_stock_transfer(transfer_id)) =>
         /\ response'.outcome = "not_found"
         /\ transfers' = transfers
         /\ movements' = movements]_vars

\* cancel_stock_transfer has just been answered not-found while another
\* transfer is pending and the ledger holds rows.
C24_Witness ==
  /\ response = Response("cancel_stock_transfer", "not_found")
  /\ \E t \in DOMAIN transfers : transfers[t].status = "pending"
  /\ movements # << >>

\* C10: for an active product and warehouse, create_stock_movement with a
\* negative resolved quantity q fails with the insufficient-stock error
\* exactly when current_stock + q < 0, and then inserts no row and leaves the
\* stock as it was.
C10_InsufficientStockGuard ==
  [][\A movement_data \in GuardMovementRequests :
       LET q == calculate_movement_quantity(movement_data.movement_type,
                                            movement_data.quantity)
           p == movement_data.product_id
           w == movement_data.warehouse_id
       IN (/\ ActiveProduct(DB, p) /\ ActiveWarehouse(DB, w)
           /\ q < 0
           /\ create_stock_movement(movement_data)) =>
            /\ (response'.outcome = "insufficient_stock") <=> (Stock(p, w) + q < 0)
            /\ response'.outcome = "insufficient_stock" =>
                 movements' = movements /\ StockAfter(p, w) = Stock(p, w)]_vars

\* A withdrawal has just been refused that exceeds a stock that is not 0, on
\* a ledger that holds an earlier withdrawal.
C10_Witness ==
  /\ response = Response("create_stock_movement", "insufficient_stock")
  /\ Stock(1, 1) = 1
  /\ \E i \in DOMAIN movements : movements[i].quantity < 0

\* ------------------------------------------------------------------ claims (SignSpec)
\* C21: every row written by create_stock_movement or
\* complete_stock_transfer has quantity >= 0 when its kind is purchase,
\* return or transfer_in and quantity <= 0 when it is sale, damaged or
\* transfer_out, whatever sign the caller sent; an adjustment row carries
\* the caller's sign.
C21_KindDeterminesSign ==
  [][/\ \A i \in DOMAIN movements' :
          /\ movements'[i].movement_type \in {"purchase", "return", "transfer_in"}
               => movements'[i].quantity >= 0
          /\ movements'[i].movement_type \in {"sale", "damaged", "transfer_out"}
               => movements'[i].quantity <= 0
     /\ \A movement_data \in SignMovementRequests :
          (/\ movement_data.movement_type = "adjustment"
           /\ response' = Response("create_stock_movement", "ok")
           /\ create_stock_movement(movement_data)) =>
            movements'[Len(movements')].quantity = movement_data.quantity]_vars

\* The ledger holds a return, the two rows of a completed transfer and an
\* adjustment.
C21_Witness ==
  /\ \E t \in DOMAIN transfers : transfers[t].status = "completed"
  /\ \E i, j \in DOMAIN movements :
       /\ movements[i].movement_type = "return" /\ movements[i].quantity > 0
       /\ movements[j].movement_type = "adjustment"
  /\ response = Response("create_stock_movement", "ok")

\* ------------------------------------------------------------------ claims (ApiSpec)
\* C22: a create-movement request with quantity 0 is rejected with a
\* validation error and inserts no movement row.
C22_ZeroQuantityMovementRejected ==
  [][\A current_user \in ApiUserIds, movement_data \in ApiMovementRequests :
       (/\ movement_data.quantity = 0
        /\ response'.call = "create_stock_movement"
        /\ post_stock_movement(current_user, movement_data)) =>
         /\ response'.outcome = "validation_error"
         /\ movements' = movements]_vars

\* C23: every persisted transfer has quantity > 0; a create-transfer request
\* with quantity 0 or a negative quantity is rejected and persists nothing.
C23_TransferQuantityPositive ==
  [][/\ \A t \in DOMAIN transfers' : transfers'[t].quantity > 0
     /\ \A current_user \in ApiUserIds, transfer_data \in ApiTransferRequests :
          (/\ transfer_data.quantity <= 0
           /\ response'.call = "create_stock_transfer"
           /\ post_stock_transfer(current_user, transfer_data)) =>
            /\ response'.outcome = "validation_error"
            /\ UNCHANGED tables]_vars

\* A transfer request has just been rejected by validation although the
\* source holds stock and no transfer exists yet.
C23_Witness ==
  /\ response = Response("create_stock_transfer", "validation_error")
  /\ Stock(1, 1) >= 1
  /\ transfers = << >>

\* C26: every committed movement creation and transfer creation, completion
\* and cancellation is announced to the broadcast sink, after its commit; an
\* operation that failed is not announced; the sink failing changes nothing
\* of what was committed.  Stated of the steps of the four handlers: the
\* suspended broadcasts of the product handlers go on between them.
C26_CommittedOperationsAnnounced ==
  [][(/\ response'.call \in {"create_stock_movement", "create_stock_transfer",
                              "complete_stock_transfer", "cancel_stock_transfer"}
      /\ \/ \E movement_data \in NotifyMovementRequests :
              post_stock_movement(1, movement_data)
         \/ \E transfer_data \in NotifyTransferRequests :
              post_stock_transfer(1, transfer_data)
         \/ \E transfer_id \in TransferIdRequests :
              put_stock_transfer_complete(1, transfer_id)
         \/ \E transfer_id \in TransferIdRequests :
              put_stock_transfer_cancel(1, transfer_id)) =>
       IF tables' # tables
         THEN /\ response'.outcome = "ok"
              /\ Len(broadcasts') = Len(broadcasts) + 1
              /\ \A i \in DOMAIN broadcasts : broadcasts'[i] = broadcasts[i]
         ELSE broadcasts' = broadcasts]_vars

\* ------------------------------------------------------------------ claims (OwnedSpec)
\* C31: a request to complete or cancel a transfer by a user who is neither
\* its creator nor an admin, and a request to create a movement or a
\* transfer by a user who is neither the product's creator nor an admin, is
\* rejected as forbidden and leaves the tables unchanged, nothing announced.
C31_OnlyCreatorOrAdminMayWrite ==
  [][\A current_user \in UserIds :
       ~users[current_user].is_admin =>
         /\ \A transfer_id \in DOMAIN transfers :
              (/\ response'.call \in {"complete_stock_transfer", "cancel_stock_transfer"}
               /\ transfers[transfer_id].created_by # current_user
               /\ \/ put_stock_transfer_complete(current_user, transfer_id)
                  \/ put_stock_transfer_cancel(current_user, transfer_id)) =>
                /\ response'.outcome = "forbidden"
                /\ UNCHANGED <<tables, broadcasts>>
         /\ \A movement_data \in OwnedMovementRequests :
              (/\ response'.call = "create_stock_movement"
               /\ movement_data.product_id \in DOMAIN products
               /\ products[movement_data.product_id].created_by # current_user
               /\ post_stock_movement(current_user, movement_data)) =>
                /\ response'.outcome = "forbidden"
                /\ UNCHANGED <<tables, broadcasts>>
         /\ \A transfer_data \in OwnedTransferRequests :
              (/\ response'.call = "create_stock_transfer"
               /\ transfer_data.quantity > 0
               /\ products[transfer_data.product_id].created_by # current_user
               /\ post_stock_transfer(current_user, transfer_data)) =>
                /\ response'.outcome = "forbidden"
                /\ UNCHANGED <<tables, broadcasts>>]_vars

\* Completing a pending transfer that the admin created was just forbidden,
\* to the product's creator or to the third user, with stock at the source.
C31_Witness ==
  /\ response = Response("complete_stock_transfer", "forbidden")
  /\ \E transfer_id \in DOMAIN transfers :
       /\ transfers[transfer_id].status = "pending"
       /\ transfers[transfer_id].created_by = 3
       /\ products[transfers[transfer_id].product_id].created_by = 1
       /\ Stock(1, 1) >= transfers[transfer_id].quantity

\* ------------------------------------------------------------------ claims (WsSpec)
\* C34: the two subscription maps agree in every state: user u is in
\* channel_subscriptions[c] exactly when c is in user_subscriptions[u]; so a
\* user without an entry in user_subscriptions is in no channel.
C34_SubscriptionMapsAgree ==
  \A user_id \in WsUserIds, channel \in Channels :
    user_id \in ws_manager.channel_subscriptions[channel]
      <=> /\ user_id \in DOMAIN ws_manager.user_subscriptions
          /\ channel \in ws_manager.user_subscriptions[user_id]

\* C35: while a user holds two open sockets, the closing of the one that is
\* not registered (the older) leaves the user's registered socket in
\* active_connections and the user's subscriptions as they were.
C35_OlderCloseKeepsNewerRegistered ==
  [][\A older, newer \in WebSocketIds :
       (/\ older # newer
        /\ websockets[older].pc = "open"
        /\ websockets[newer].pc = "open"
        /\ websockets[older].user = websockets[newer].user
        /\ websockets[newer].user \in DOMAIN ws_manager.active_connections
        /\ ws_manager.active_connections[websockets[newer].user] = newer
        /\ websocket_endpoint_close(older)) =>
         LET user_id == websockets[newer].user IN
         /\ user_id \in DOMAIN ws_manager'.active_connections
         /\ ws_manager'.active_connections[user_id] = newer
         /\ \A channel \in Channels :
              user_id \in ws_manager'.channel_subscriptions[channel]
                <=> user_id \in ws_manager.channel_subscriptions[channel]]_vars

\* ------------------------------------------------------------------ claims (CostSpec)
\* C25: for every movement created by create_stock_movement, total_cost is
\* unit_cost times the absolute value of the stored quantity when a unit
\* cost is given, so never negative, and null when none is given.
C25_TotalCostIsUnitCostTimesQuantity ==
  \A i \in DOMAIN movements :
    IF movements[i].unit_cost = None
      THEN movements[i].total_cost = None
      ELSE /\ movements[i].total_cost # None
           /\ movements[i].total_cost[1] >= 0
           /\ movements[i].total_cost[1]
                = movements[i].unit_cost[1] * Abs(movements[i].quantity)

\* Rows that pair with row i as the other half of a transfer: the opposite
\* kind, the same reference and product, the opposite quantity, another
\* warehouse.
TransferCounterparts(i) ==
  {j \in DOMAIN movements :
     /\ movements[j].movement_type =
          (IF movements[i].movement_type = "transfer_out"
             THEN "transfer_in" ELSE "transfer_out")
     /\ movements[j].reference_number = movements[i].reference_number
     /\ movements[j].product_id = movements[i].product_id
     /\ movements[j].quantity = -movements[i].quantity
     /\ movements[j].warehouse_id # movements[i].warehouse_id}

\* C29: in every ledger state each transfer_out row is matched by exactly
\* one transfer_in row with the same reference, product and magnitude at
\* another warehouse, and each transfer_in row by exactly one such
\* transfer_out row, also when create_stock_movement is called with kind
\* transfer_in or transfer_out.
C29_TransferRowsArePaired ==
  \A i \in DOMAIN movements :
    movements[i].movement_type \in {"transfer_in", "transfer_out"} =>
      Cardinality(TransferCounterparts(i)) = 1

\* ------------------------------------------------------------------ claims (TransferSpec)
\* No stock changes in the step.
StockUnchanged ==
  \A p \in ProductIds, w \in WarehouseIds : StockAfter(p, w) = Stock(p, w)

\* C15: complete_stock_transfer on a pending transfer whose source stock is,
\* at completion, below the transfer's quantity (a sale or another completed
\* transfer having taken it since creation) fails with the
\* insufficient-stock error, leaves the transfer pending and inserts no
\* movement.
C15_CompleteRechecksStock ==
  [][\A transfer_id \in TransferIdRequests :
       (/\ TransferExists(DB, transfer_id)
        /\ transfers[transfer_id].status = "pending"
        /\ Stock(transfers[transfer_id].product_id,
                 transfers[transfer_id].from_warehouse_id)
             < transfers[transfer_id].quantity
        /\ complete_stock_transfer(transfer_id)) =>
         /\ response'.outcome = "insufficient_stock"
         /\ transfers' = transfers
         /\ transfers'[transfer_id].status = "pending"
         /\ movements' = movements]_vars

\* The completion of a pending transfer of 2 has just been refused: a sale
\* made after the transfer was created left 1 at the source.
C15_Witness ==
  /\ response = Response("complete_stock_transfer", "insufficient_stock")
  /\ \E t \in DOMAIN transfers :
       /\ transfers[t].status = "pending"
       /\ transfers[t].quantity = 2
       /\ Stock(transfers[t].product_id, transfers[t].from_warehouse_id) = 1
  /\ \E i \in DOMAIN movements : movements[i].movement_type = "sale"

\* C16: cancel_stock_transfer on a pending transfer sets its status to
\* cancelled (unless the commit itself fails), inserts no movement row and
\* leaves the stock of every (product, warehouse) as it was.
C16_CancelWritesNoMovement ==
  [][\A transfer_id \in TransferIdRequests :
       (/\ TransferExists(DB, transfer_id)
        /\ transfers[transfer_id].status = "pending"
        /\ cancel_stock_transfer(transfer_id)) =>
         /\ response'.outcome \in {"ok", "db_error"}
         /\ response'.outcome = "ok" =>
              transfers' = [transfers EXCEPT ![transfer_id].status = "cancelled"]
         /\ movements' = movements
         /\ StockUnchanged]_vars

\* A pending transfer has just been cancelled while its source holds stock.
C16_Witness ==
  /\ response = Response("cancel_stock_transfer", "ok")
  /\ \E t \in DOMAIN transfers :
       /\ transfers[t].status = "cancelled"
       /\ Stock(transfers[t].product_id, transfers[t].from_warehouse_id)
            >= transfers[t].quantity

\* C17: create_stock_transfer between two different active warehouses for an
\* active product fails with the insufficient-stock error and persists no
\* transfer when the source stock is below the quantity; otherwise it
\* persists a pending transfer; either way it inserts no movement and
\* changes no stock.
C17_CreateTransferChecksStock ==
  [][\A transfer_data \in TransferQuantityRequests :
       (/\ transfer_data.from_warehouse_id # transfer_data.to_warehouse_id
        /\ ActiveProduct(DB, transfer_data.product_id)
        /\ ActiveWarehouse(DB, transfer_data.from_warehouse_id)
        /\ ActiveWarehouse(DB, transfer_data.to_warehouse_id)
        /\ create_stock_transfer(transfer_data)) =>
         /\ IF Stock(transfer_data.product_id, transfer_data.from_warehouse_id)
                 < transfer_data.quantity
              THEN /\ response'.outcome = "insufficient_stock"
                   /\ transfers' = transfers
              ELSE /\ response'.outcome \in {"ok", "db_error"}
                   /\ response'.outcome = "ok" =>
                        /\ Len(transfers') = Len(transfers) + 1
                        /\ transfers'[Len(transfers')].status = "pending"
                        /\ transfers'[Len(transfers')].quantity = transfer_data.quantity
                        /\ \A t \in DOMAIN transfers : transfers'[t] = transfers[t]
         /\ movements' = movements
         /\ StockUnchanged]_vars

\* A transfer of 2 has just been refused at creation with 1 in stock at
\* either warehouse.
C17_Witness ==
  /\ response = Response("create_stock_transfer", "insufficient_stock")
  /\ Stock(1, 1) = 1
  /\ Stock(1, 2) = 1

\* ------------------------------------------------------------------ claims (CatalogSpec)
\* C18 as stated: create_stock_transfer with source = destination always
\* fails with the same-warehouse error and persists no transfer, so no
\* persisted transfer has from_warehouse_id = to_warehouse_id.
C18_SameWarehouseAlwaysThatError ==
  [][/\ \A transfer_data \in CatalogTransferRequests :
          (/\ transfer_data.from_warehouse_id = transfer_data.to_warehouse_id
           /\ response'.call = "create_stock_transfer"
           /\ create_stock_transfer(transfer_data)) =>
            /\ response'.outcome = "same_warehouse"
            /\ transfers' = transfers
     /\ \A t \in DOMAIN transfers' :
          transfers'[t].from_warehouse_id # transfers'[t].to_warehouse_id]_vars

\* C18 amended: create_stock_transfer with source = destination always fails
\* and persists no transfer, with the same-warehouse error when the product
\* exists and is active and with the product-not-found error otherwise; no
\* persisted transfer has from_warehouse_id = to_warehouse_id.
C18_SameWarehouseRefused ==
  [][/\ \A transfer_data \in CatalogTransferRequests :
          (/\ transfer_data.from_warehouse_id = transfer_data.to_warehouse_id
           /\ response'.call = "create_stock_transfer"
           /\ create_stock_transfer(transfer_data)) =>
            /\ response'.outcome =
                 (IF ActiveProduct(DB, transfer_data.product_id)
                    THEN "same_warehouse" ELSE "product_not_found")
            /\ transfers' = transfers
     /\ \A t \in DOMAIN transfers' :
          transfers'[t].from_warehouse_id # transfers'[t].to_warehouse_id]_vars

\* A transfer within one warehouse has just been refused although the
\* product is active and warehouse 1 holds stock.
C18_Witness ==
  /\ response = Response("create_stock_transfer", "same_warehouse")
  /\ ActiveProduct(DB, 1)
  /\ Stock(1, 1) >= 1

\* C27: delete_product only clears the product's active flag: the product
\* row, every movement and every transfer remain, the stock of every
\* (product, warehouse) is unchanged; the flag is never set again, and every
\* later create_stock_movement or create_stock_transfer for the product
\* fails with the product-not-found error.
C27_DeleteProductIsSoft ==
  [][/\ \A product_id \in CatalogProductIds :
          (/\ response' = Response("delete_product", "ok")
           /\ delete_product(product_id)) =>
            /\ products' = [products EXCEPT ![product_id].is_active = FALSE]
            /\ warehouses' = warehouses
            /\ movements' = movements
            /\ transfers' = transfers
            /\ StockUnchanged
     /\ \A product_id \in DOMAIN products :
          ~products[product_id].is_active =>
            /\ product_id \in DOMAIN products' /\ ~products'[product_id].is_active
            /\ \A movement_data \in CatalogMovementRequests :
                 (/\ movement_data.product_id = product_id
                  /\ response'.call = "create_stock_movement"
                  /\ create_stock_movement(movement_data)) =>
                   response'.outcome = "product_not_found" /\ UNCHANGED tables
            /\ \A transfer_data \in CatalogTransferRequests :
                 (/\ transfer_data.product_id = product_id
                  /\ response'.call = "create_stock_transfer"
                  /\ create_stock_transfer(transfer_data)) =>
                   response'.outcome = "product_not_found" /\ UNCHANGED tables]_vars

\* A transfer has just been refused for a soft-deleted product whose stock
\* and pending transfer are still there.
C27_Witness ==
  /\ response = Response("create_stock_transfer", "product_not_found")
  /\ ~products[1].is_active
  /\ Stock(1, 1) >= 1
  /\ \E t \in DOMAIN transfers : transfers[t].status = "pending"

\* C30: a movement row is inserted only while its product and its warehouse
\* are active, the two rows of complete_stock_transfer included when the
\* product was soft-deleted while the transfer was pending.
C30_RowsOnlyForActiveProductAndWarehouse ==
  [][\A i \in DOMAIN movements' :
       i > Len(movements) =>
         /\ products[movements'[i].product_id].is_active
         /\ warehouses[movements'[i].warehouse_id].is_active]_vars

\* C20: no operation updates or deletes a movement row: in every step the
\* ledger keeps every row it had, each with its product, warehouse, kind,
\* quantity and reference, and can only gain rows.
C20_LedgerIsAppendOnly ==
  [][/\ Len(movements') >= Len(movements)
     /\ \A i \in DOMAIN movements :
          /\ movements'[i].product_id = movements[i].product_id
          /\ movements'[i].warehouse_id = movements[i].warehouse_id
          /\ movements'[i].movement_type = movements[i].movement_type
          /\ movements'[i].quantity = movements[i].quantity
          /\ movements'[i].reference_number = movements[i].reference_number]_vars

\* A product with a completed transfer and a sale in the ledger has been
\* soft-deleted.
C20_Witness ==
  /\ response = Response("delete_product", "ok")
  /\ \E t \in DOMAIN transfers : transfers[t].status = "completed"
  /\ \E i \in DOMAIN movements : movements[i].movement_type = "sale"
  /\ Len(movements) = 4

\* ------------------------------------------------------------------ claims (ProductSpec)
\* C19: create_stock_movement fails with the product-not-found error when
\* the product is missing or inactive, and with the warehouse-not-found
\* error when the product is active but the warehouse is missing or
\* inactive; either way no row is inserted and no stock changes.
C19_MovementNeedsProductAndWarehouse ==
  [][\A movement_data \in CatalogMovementRequests :
       LET p == movement_data.product_id
           w == movement_data.warehouse_id
           missing ==
             IF p \notin DOMAIN products \/ ~products[p].is_active THEN "product"
             ELSE IF w \notin DOMAIN warehouses \/ ~warehouses[w].is_active
               THEN "warehouse"
             ELSE "none"
       IN (/\ missing # "none"
           /\ response'.call = "create_stock_movement"
           /\ create_stock_movement(movement_data)) =>
            /\ missing = "product" => response'.outcome = "product_not_found"
            /\ missing = "warehouse" => response'.outcome = "warehouse_not_found"
            /\ movements' = movements
            /\ StockUnchanged]_vars

\* A movement has just been refused for a soft-deleted product that has
\* rows in the ledger.
C19_Witness ==
  /\ response = Response("create_stock_movement", "product_not_found")
  /\ ~products[1].is_active
  /\ Stock(1, 1) >= 1

\* ------------------------------------------------------------------ claims (CancelSpec)
\* C32: a pending transfer can be cancelled in every state, whatever the
\* stock at its source and whether or not its product is active: the call
\* is never refused by validation, and unless the commit itself fails it
\* leaves the transfer cancelled.
C32_PendingTransferCanBeCancelled ==
  /\ [](\A transfer_id \in DOMAIN transfers :
          transfers[transfer_id].status = "pending" =>
            ENABLED (/\ cancel_stock_transfer(transfer_id)
                     /\ response'.outcome = "ok"))
  /\ [][\A transfer_id \in DOMAIN transfers :
          (/\ response'.call = "cancel_stock_transfer"
           /\ transfers[transfer_id].status = "pending"
           /\ cancel_stock_transfer(transfer_id)) =>
            /\ response'.outcome \in {"ok", "db_error"}
            /\ response'.outcome = "ok" =>
                 transfers'[transfer_id].status = "cancelled"]_vars

\* A transfer was cancelled after its product was soft-deleted and the stock
\* at its source sold off.
C32_Witness ==
  /\ response = Response("cancel_stock_transfer", "ok")
  /\ \E transfer_id \in DOMAIN transfers :
       /\ transfers[transfer_id].status = "cancelled"
       /\ ~products[transfers[transfer_id].product_id].is_active
       /\ Stock(transfers[transfer_id].product_id,
                transfers[transfer_id].from_warehouse_id)
            < transfers[transfer_id].quantity

\* ------------------------------------------------------------------ claims (SkuSpec)
\* Another product row, active or soft-deleted, holds this SKU.
SkuTakenByOther(product_id, sku) ==
  \E p \in DOMAIN products : p # product_id /\ products[p].sku = sku

\* C28: no two product rows, active or soft-deleted, ever share a SKU; a
\* create_product whose SKU some row holds, and an update_product of an
\* active product to a SKU another row holds, answer with the duplicate-SKU
\* error and change nothing.
C28_SkuIsUnique ==
  /\ products = << >>
  /\ [][/\ \A p, q \in DOMAIN products' :
             products'[p].sku = products'[q].sku => p = q
        /\ \A product_data \in ProductCreateRequests :
             (/\ response'.call = "create_product"
              /\ SkuTakenByOther(0, product_data.sku)
              /\ create_product(product_data)) =>
               /\ response'.outcome = "duplicate_sku"
               /\ UNCHANGED tables
        /\ \A product_id \in DOMAIN products, product_data \in ProductUpdateRequests :
             (/\ response'.call = "update_product"
              /\ products[product_id].is_active
              /\ "sku" \in DOMAIN product_data
              /\ SkuTakenByOther(product_id, product_data.sku)
              /\ update_product(product_id, product_data)) =>
               /\ response'.outcome = "duplicate_sku"
               /\ UNCHANGED tables]_vars

\* A create was refused although every row, and so the one holding the
\* SKU, is soft-deleted.
C28_Witness ==
  /\ response = Response("create_product", "duplicate_sku")
  /\ Cardinality(DOMAIN products) = MaxProducts
  /\ \A p \in DOMAIN products : ~products[p].is_active

\* C33: a product whose active flag is cleared stays inactive through every
\* ProductService call, and every later update_product or delete_product on
\* it answers not-found and changes nothing.
C33_InactiveProductStaysInactive ==
  [][\A product_id \in DOMAIN products :
       ~products[product_id].is_active =>
         /\ product_id \in DOMAIN products'
         /\ ~products'[product_id].is_active
         /\ \A product_data \in ProductUpdateRequests :
              (/\ response'.call = "update_product"
               /\ update_product(product_id, product_data)) =>
                /\ response'.outcome = "not_found"
                /\ UNCHANGED tables
         /\ (/\ response'.call = "delete_product"
             /\ delete_product(product_id)) =>
               /\ response'.outcome = "not_found"
               /\ UNCHANGED tables]_vars

\* Every row is inactive and an update of one of them was just refused.
C33_Witness ==
  /\ response = Response("update_product", "not_found")
  /\ Cardinality(DOMAIN products) = MaxProducts
  /\ \A p \in DOMAIN products : ~products[p].is_active

\* ------------------------------------------------------------------ claims (CalcSpec)
\* r is the absolute value of m.
IsAbsOf(r, m) == r >= 0 /\ (r = m \/ r = -m)

\* C11: for every kind in {purchase, return, transfer_in} and every integer
\* magnitude m, positive, zero or negative, _calculate_movement_quantity
\* returns abs(m).
C11_InboundIsAbs ==
  (Returned /\ response.movement_type \in {"purchase", "return", "transfer_in"}) =>
    IsAbsOf(response.outcome, response.input_quantity)

\* A return entered with a negative magnitude has been resolved.
C11_Witness ==
  /\ Returned
  /\ response.movement_type = "return"
  /\ response.input_quantity = -2
  /\ response.outcome = 2

\* C12: for every kind in {sale, damaged, transfer_out} and every integer
\* magnitude m, positive, zero or negative, _calculate_movement_quantity
\* returns -abs(m).
C12_OutboundIsMinusAbs ==
  (Returned /\ response.movement_type \in {"sale", "damaged", "transfer_out"}) =>
    IsAbsOf(-response.outcome, response.input_quantity)

\* A damaged movement entered with a negative magnitude has been resolved.
C12_Witness ==
  /\ Returned
  /\ response.movement_type = "damaged"
  /\ response.input_quantity = -2
  /\ response.outcome = -2

\* C13: for every integer magnitude m, _calculate_movement_quantity of an
\* adjustment returns m itself, sign preserved, 0 included.
C13_AdjustmentKeepsSign ==
  (Returned /\ response.movement_type = "adjustment") =>
    response.outcome = response.input_quantity

\* An adjustment of a negative magnitude has been resolved.
C13_Witness ==
  /\ Returned
  /\ response.movement_type = "adjustment"
  /\ response.input_quantity = -1
  /\ response.outcome = -1

\* ------------------------------------------------------------------ claims (ReadSpec)
\* Rows of the ledger as it stands for (product, warehouse).
LedgerRows(product_id, warehouse_id) ==
  {i \in DOMAIN movements :
     /\ movements[i].product_id = product_id
     /\ movements[i].warehouse_id = warehouse_id}

\* Sum of the quantities of a set of ledger rows.
RECURSIVE LedgerSum(_)
LedgerSum(rows) ==
  IF rows = {} THEN 0
  ELSE LET i == CHOOSE x \in rows : TRUE IN
       movements[i].quantity + LedgerSum(rows \ {i})

\* C14: the value get_product_stock_in_warehouse(p, w) returned is the sum of
\* the quantities of the rows the ledger now holds for p and w, and 0 when
\* it holds none: as long as nothing is written the value returned stays
\* current, and a read after a committed write counts the new row.
C14_StockIsLedgerSum ==
  response.call = "get_product_stock_in_warehouse" =>
    /\ response.outcome
         = LedgerSum(LedgerRows(response.product_id, response.warehouse_id))
    /\ LedgerRows(response.product_id, response.warehouse_id) = {}
         => response.outcome = 0

\* The stock of a pair has been read whose rows are of both signs, while the
\* other warehouse holds rows of its own.
C14_Witness ==
  /\ response.call = "get_product_stock_in_warehouse"
  /\ response.outcome = 1
  /\ \E i, j \in LedgerRows(response.product_id, response.warehouse_id) :
       movements[i].quantity < 0 /\ movements[j].quantity = 2
  /\ \E i \in DOMAIN movements : movements[i].warehouse_id # response.warehouse_id

\* ------------------------------------------------------------------ claims (AuditSpec)
\* Calls that do not overlap, where a caller of create_stock_movement may
\* pass any reference_number (StockMovementBase: Optional[str], max_length
\* 100), among them one of the form TRANSFER-{id}.
AuditMovementRequests ==
  [product_id : ProductIds,
   warehouse_id : {1},
   movement_type : {"purchase"},
   quantity : {1},
   unit_cost : {None},
   reference_number : {NULL, "PO001", TransferReference(1)}]

AuditNext ==
  \/ \E movement_data \in AuditMovementRequests : create_stock_movement(movement_data)
  \/ \E transfer_data \in TransferRequests : create_stock_transfer(transfer_data)
  \/ \E transfer_id \in TransferIdRequests : complete_stock_transfer(transfer_id)
  \/ \E transfer_id \in TransferIdRequests : cancel_stock_transfer(transfer_id)

AuditSpec == Init /\ [][AuditNext]_vars

\* C4: for every transfer t, the ledger holds no row referenced TRANSFER-{t.id}
\* while t is pending or cancelled, and exactly two once t is completed: one
\* transfer_out of -t.quantity at the source and one transfer_in of
\* +t.quantity at the destination.
C4_TransferOwnsItsMovements ==
  \A t \in DOMAIN transfers :
    IF transfers[t].status = "completed"
      THEN /\ Cardinality(ReferencedRows(t)) = 2
           /\ \E i \in TransferRows(t, "transfer_out") :
                /\ movements[i].quantity = -transfers[t].quantity
                /\ movements[i].warehouse_id = transfers[t].from_warehouse_id
           /\ \E i \in TransferRows(t, "transfer_in") :
                /\ movements[i].quantity = transfers[t].quantity
                /\ movements[i].warehouse_id = transfers[t].to_warehouse_id
      ELSE ReferencedRows(t) = {}

\* ------------------------------------------------------------------ claims (ConcSpec)
\* What the rows waiting in session s would take from (product, warehouse).
RECURSIVE PendingWithdrawal(_, _, _, _)
PendingWithdrawal(ws, product_id, warehouse_id, n) ==
  IF n = 0 THEN 0
  ELSE PendingWithdrawal(ws, product_id, warehouse_id, n - 1)
       + (IF /\ ws[n].stmt = "insert_movement"
             /\ ws[n].row.product_id = product_id
             /\ ws[n].row.warehouse_id = warehouse_id
             /\ ws[n].row.quantity < 0
            THEN ws[n].row.quantity ELSE 0)

Withdrawal(s, product_id, warehouse_id) ==
  PendingWithdrawal(sessions[s].writes, product_id, warehouse_id,
                    Len(sessions[s].writes))

\* Sessions s1 and s2, running call1 and call2, have both passed validation
\* for withdrawals from (product, warehouse) that the stock does not cover
\* together.
BothPassed(s1, call1, s2, call2, product_id, warehouse_id) ==
  /\ s1 # s2
  /\ sessions[s1].pc = "commit" /\ sessions[s1].call = call1
  /\ sessions[s2].pc = "commit" /\ sessions[s2].call = call2
  /\ Withdrawal(s1, product_id, warehouse_id) < 0
  /\ Withdrawal(s2, product_id, warehouse_id) < 0
  /\ Stock(product_id, warehouse_id)
       + Withdrawal(s1, product_id, warehouse_id)
       + Withdrawal(s2, product_id, warehouse_id) < 0

\* C2: two overlapping create_stock_movement requests with negative resolved
\* quantities on one (product, warehouse) never both pass validation when
\* the stock does not cover both; with movements alone in the ledger, no
\* stock is negative.
C2_OutboundMovementsAreSerialized ==
  /\ \A s1, s2 \in SessionIds, p \in ProductIds, w \in WarehouseIds :
       ~BothPassed(s1, "create_stock_movement", s2, "create_stock_movement", p, w)
  /\ transfers = << >> => \A p \in ProductIds, w \in WarehouseIds : Stock(p, w) >= 0

\* C3: a complete_stock_transfer overlapping an outbound create_stock_movement
\* on the transfer's (product, source warehouse) never passes its re-check
\* together with the movement's check when the stock does not cover both.
C3_CompletionIsSerializedWithSale ==
  \A s1, s2 \in SessionIds, p \in ProductIds, w \in WarehouseIds :
    ~BothPassed(s1, "complete_stock_transfer", s2, "create_stock_movement", p, w)

\* C8: whatever the interleaving of two complete_stock_transfer calls on one
\* pending transfer, the ledger ends with one transfer_out and one
\* transfer_in row for it, never more.
C8_TransferCompletedOnce ==
  \A t \in DOMAIN transfers :
    /\ Cardinality(TransferRows(t, "transfer_out")) <= 1
    /\ Cardinality(TransferRows(t, "transfer_in")) <= 1

\* C9: whatever the interleaving of complete_stock_transfer and
\* cancel_stock_transfer on one pending transfer, a cancelled transfer has no
\* TRANSFER-{id} row in the ledger.
C9_CancelledTransferHasNoMovements ==
  \A t \in DOMAIN transfers :
    transfers[t].status = "cancelled" => ReferencedRows(t) = {}

====
